---- MODULE Spec2Model ----
(***************************************************************************)
(* Feed ingestion pipeline of the podcast scraper.                         *)
(*                                                                         *)
(*   RSSFeedParser  (utils/rss-parser.ts)                                  *)
(*     validateMp3Url        reachability probe with retry and backoff     *)
(*     validateMp3UrlsBatch  windows of concurrent validateMp3Url calls    *)
(*     extractEpisodes       candidates, existing/new split, validation    *)
(*     parseFeed             fetch, parse, extract                         *)
(*                                                                         *)
(* Every await of the source is a suspension point: the synchronous code   *)
(* between two awaits is one action.                                       *)
(***************************************************************************)
EXTENDS Integers, Sequences, FiniteSets, TLC

VARIABLES
    calls,        \* validateMp3Url invocations, by position of their URL
    probeLog,     \* responses received by a directly invoked validateMp3Url
    urls,         \* argument of validateMp3UrlsBatch
    results,      \* its local array `results`
    i,            \* its loop variable (0-based window start)
    bpc,          \* where validateMp3UrlsBatch is
    providerName,        \* RSSFeedParser.providerName
    existingEpisodeIds,  \* RSSFeedParser.existingEpisodeIds
    ipc,                 \* where parseFeed is
    parsedEpisodes,      \* extractEpisodes: the candidates, in feed order
    episodesOut,         \* the episode list parseFeed resolves with
    batchInvocations,    \* number of validateMp3UrlsBatch calls made
    error,               \* the error parseFeed / saveData / scrape rejected with
    feedFetches,         \* number of axios.get requests for the feed
    feedItems,           \* the items of the feed document last fetched
    channelInfo,         \* parseFeed's channelInfo
    episodesFile,        \* data/episodes.json
    channelsFile,        \* data/channels.json
    versionFile,         \* data/version.json
    save,                \* the running saveData call: arguments and locals
    rpc,                 \* where scrape() is
    clock,               \* number of runs started (the source of timestamps)
    before,              \* the three files as they were when the run started
    prevRun,             \* what the previous scrape() fetched and returned
    loaded,              \* what the last read of the store returned
    main,                \* where main() is and what it has run
    requests             \* the HTTP requests the server has received

batchVars == <<urls, results, i, bpc>>
ingestVars == <<providerName, existingEpisodeIds, ipc, parsedEpisodes,
                episodesOut, batchInvocations, error, feedFetches,
                feedItems, channelInfo>>
storeVars == <<episodesFile, channelsFile, versionFile>>
runVars == <<save, rpc, clock, before, prevRun>>
callerVars == <<loaded, main, requests>>
vars == <<calls, probeLog, urls, results, i, bpc, providerName,
          existingEpisodeIds, ipc, parsedEpisodes, episodesOut,
          batchInvocations, error, feedFetches, feedItems, channelInfo,
          episodesFile, channelsFile, versionFile, save, rpc, clock, before,
          prevRun, loaded, main, requests>>

----------------------------------------------------------------------------
(* Bounds of the model                                                     *)

\* largest `retries` argument passed to a direct validateMp3Url call
MaxRetries == 4
\* longest URL list handed to validateMp3UrlsBatch
MaxUrls == 3
\* The window size of validateMp3UrlsBatch. The source fixes it at 100
\* (rss-parser.ts, `const BATCH_SIZE = 100`); the model scales it down so
\* that inputs longer than one window stay checkable.
BATCH_SIZE == 2

\* default of the `retries` parameter of validateMp3Url
DefaultRetries == 3

Min(a, b) == IF a < b THEN a ELSE b

\* longest item list of a feed
MaxItems == 2

\* A URL is the sequence of its "/"-separated parts, the scheme first:
\* <<"https:", "traffic.example.com", "ep1.mp3">> is
\* https://traffic.example.com/ep1.mp3, and <<>> is the empty string.
EmptyUrl == <<>>
Ep1Url == <<"https:", "traffic.example.com", "ep1.mp3">>
Ep2Url == <<"https:", "traffic.example.com", "ep2.mp3">>
TrackedEp1Url ==
    <<"https:", "dts.podtrac.com", "redirect.mp3", "traffic.example.com",
      "ep1.mp3">>

URLs == {EmptyUrl, Ep1Url, Ep2Url}

----------------------------------------------------------------------------
(* What one axios.head attempt can end in                                  *)

Status(s) == [kind |-> "status", status |-> s]
\* a rejected request (connection failure, too many redirects)
NetworkError == [kind |-> "error", status |-> 0]
\* the 5 s timer fired and aborted the request, which then rejects
Timeout == [kind |-> "timeout", status |-> 0]
NoResponse == [kind |-> "none", status |-> 0]

\* validateStatus: () => true, so every status resolves the request
Statuses == {200, 404, 503}
Responses == {Status(s) : s \in Statuses} \cup {NetworkError, Timeout}

----------------------------------------------------------------------------
(* validateMp3Url: one invocation is a record                              *)
(*   url, retries  the arguments                                           *)
(*   attempt       the loop variable                                       *)
(*   pc            "probing"  awaiting axios.head                          *)
(*                 "sleeping" awaiting the backoff timer                   *)
(*                 "done"     the promise is resolved with `result`        *)
(*                 "rejected" the promise is rejected                      *)
(*   probes        number of axios.head requests issued so far             *)
(*   delays        the setTimeout delays (ms) of the backoff waits so far  *)
(*   last          the response of the latest attempt                      *)

Return(c, value) == [c EXCEPT !.pc = "done", !.result = value]

IterateBodyFirst(c, a) ==
    IF a <= c.retries \/ a = 1
    THEN [c EXCEPT !.attempt = a, !.pc = "probing", !.probes = @ + 1]
    ELSE Return([c EXCEPT !.attempt = a], FALSE)

\* a new loop iteration whose guard `attempt <= retries` holds issues the
\* request and suspends on it; otherwise the loop ends and line 81 returns
Iterate(c, a) ==
    IF a <= c.retries
    THEN [c EXCEPT !.attempt = a, !.pc = "probing", !.probes = @ + 1]
    ELSE Return([c EXCEPT !.attempt = a], FALSE)

StartCallNoEmptyCheck(url, retries) ==
    Iterate([url |-> url, retries |-> retries, attempt |-> 0, pc |-> "new",
             result |-> FALSE, probes |-> 0, delays |-> <<>>,
             last |-> NoResponse], 1)

\* the call up to its first await
StartCall(url, retries) ==
    LET c == [url |-> url, retries |-> retries, attempt |-> 0, pc |-> "new",
              result |-> FALSE, probes |-> 0, delays |-> <<>>,
              last |-> NoResponse]
    IN  IF url = EmptyUrl THEN Return(c, FALSE) ELSE Iterate(c, 1)

On200(c) == Return(c, TRUE)

On404Retry(c) ==
    IF c.attempt < c.retries
    THEN [c EXCEPT !.pc = "sleeping", !.delays = Append(@, c.attempt * 1000)]
    ELSE Return(c, FALSE)

On404(c) == Return(c, FALSE)

OnOtherStatusOneLess(c) ==
    IF c.attempt < c.retries - 1
    THEN [c EXCEPT !.pc = "sleeping", !.delays = Append(@, c.attempt * 1000)]
    ELSE Return(c, FALSE)

\* any other status: back off and retry unless this was the last attempt
OnOtherStatus(c) ==
    IF c.attempt < c.retries
    THEN [c EXCEPT !.pc = "sleeping", !.delays = Append(@, c.attempt * 1000)]
    ELSE Return(c, FALSE)

OnErrorFixedDelay(c) ==
    IF c.attempt < c.retries
    THEN [c EXCEPT !.pc = "sleeping", !.delays = Append(@, 1000)]
    ELSE Return(c, FALSE)

OnErrorRethrow(c) == [c EXCEPT !.pc = "rejected"]

\* the catch block: the request rejected, or the timer aborted it
OnError(c) ==
    IF c.attempt < c.retries
    THEN [c EXCEPT !.pc = "sleeping", !.delays = Append(@, c.attempt * 1000)]
    ELSE Return(c, FALSE)

OnResponseIgnore200(c, r) ==
    LET d == [c EXCEPT !.last = r]
    IN  IF r.kind = "status"
        THEN IF r.status = 404 THEN On404(d) ELSE OnOtherStatus(d)
        ELSE OnError(d)

\* the continuation of `await axios.head(...)`
OnResponse(c, r) ==
    LET d == [c EXCEPT !.last = r]
    IN  IF r.kind = "status"
        THEN IF r.status = 200 THEN On200(d)
             ELSE IF r.status = 404 THEN On404(d)
             ELSE OnOtherStatus(d)
        ELSE OnError(d)

\* the continuation of the backoff wait: `continue`, attempt++, loop guard
OnWake(c) == Iterate(c, c.attempt + 1)

InFlight(c) == c.pc \in {"probing", "sleeping"}

----------------------------------------------------------------------------
(* validateMp3UrlsBatch                                                    *)

WindowOfNoCap(i0, us) == (i0 + 1)..Len(us)

\* positions (1-based) of urls.slice(i, i + BATCH_SIZE)
WindowOf(i0, us) == (i0 + 1)..Min(i0 + BATCH_SIZE, Len(us))

BatchIndexNoOffset(i0, idx) == idx

\* batchIndexes[idx] = i + idx, as a 1-based position
BatchIndex(i0, idx) == i0 + idx

\* Promise.all resolves to the calls' values in the order of `batch`
BatchResults(i0, us, cs) ==
    [idx \in 1..Cardinality(WindowOf(i0, us)) |-> cs[i0 + idx].result]

\* batchResults.forEach((isValid, idx) => results[batchIndexes[idx]] = isValid)
StoreResults(res, i0, batchResults) ==
    [k \in DOMAIN res |->
        IF \E idx \in DOMAIN batchResults : BatchIndex(i0, idx) = k
        THEN batchResults[CHOOSE idx \in DOMAIN batchResults :
                               BatchIndex(i0, idx) = k]
        ELSE res[k]]

SettledAny(i0, us, cs) ==
    \/ \E k \in WindowOf(i0, us) : cs[k].pc \in {"done", "rejected"}

\* Promise.all settles when every call of the window has resolved, or as
\* soon as one has rejected
Settled(i0, us, cs) ==
    \/ \A k \in WindowOf(i0, us) : cs[k].pc = "done"
    \/ \E k \in WindowOf(i0, us) : cs[k].pc = "rejected"

\* The loop from its guard `i < urls.length` to the await of Promise.all:
\* batch.map starts every call of the window, each running to its first
\* await. When the guard fails the function returns `results`.
EnterWindow(i0, us, cs) ==
    IF i0 < Len(us)
    THEN /\ calls' = [k \in DOMAIN cs \cup WindowOf(i0, us) |->
                        IF k \in WindowOf(i0, us)
                        THEN StartCall(us[k], DefaultRetries)
                        ELSE cs[k]]
         /\ bpc' = "awaiting"
    ELSE /\ calls' = cs
         /\ bpc' = "done"

\* validateMp3UrlsBatch(us) up to its first await
validateMp3UrlsBatch(us) ==
    /\ urls' = us
    /\ results' = [k \in 1..Len(us) |-> FALSE]
    /\ i' = 0
    /\ EnterWindow(0, us, <<>>)

\* a pending axios.head of some call settles
ProbeReturns ==
    /\ \E k \in DOMAIN calls, r \in Responses :
          /\ calls[k].pc = "probing"
          /\ calls' = [calls EXCEPT ![k] = OnResponse(@, r)]
    /\ UNCHANGED <<probeLog, callerVars, batchVars, ingestVars, storeVars, runVars>>

\* the backoff timer of some call fires
BackoffElapsed ==
    /\ \E k \in DOMAIN calls :
          /\ calls[k].pc = "sleeping"
          /\ calls' = [calls EXCEPT ![k] = OnWake(@)]
    /\ UNCHANGED <<probeLog, callerVars, batchVars, ingestVars, storeVars, runVars>>

\* the continuation of `await Promise.all(...)`
BatchResume ==
    /\ bpc = "awaiting"
    /\ Settled(i, urls, calls)
    /\ IF \E k \in WindowOf(i, urls) : calls[k].pc = "rejected"
       THEN /\ bpc' = "rejected"
            /\ UNCHANGED <<calls, results, i>>
       ELSE /\ results' = StoreResults(results, i, BatchResults(i, urls, calls))
            /\ i' = i + BATCH_SIZE
            /\ EnterWindow(i + BATCH_SIZE, urls, calls)
    /\ UNCHANGED <<probeLog, callerVars, urls, ingestVars, storeVars, runVars>>

BatchIdle ==
    /\ urls = <<>> /\ results = <<>> /\ i = 0 /\ bpc = "idle"

\* Channel, of which the model keeps id, name and total_episodes
Channel(id, name, total) == [id |-> id, name |-> name, total_episodes |-> total]
NoChannel == Channel("", "", 0)

\* the optional channelInfo of PodcastData
ChannelInfo(channel) == [present |-> TRUE, value |-> channel]
NoChannelInfo == [present |-> FALSE, value |-> NoChannel]

NoError == "none"
FetchError == "Failed to fetch RSS feed"
ItemError == "TypeError or RangeError in extractEpisodes"
BatchError == "validateMp3UrlsBatch rejected"
MkdirError == "mkdir failed"
WriteError == "writeFile failed"

\* no parser in use
IngestIdle ==
    /\ providerName = "" /\ existingEpisodeIds = {} /\ ipc = "none"
    /\ parsedEpisodes = <<>> /\ episodesOut = <<>> /\ batchInvocations = 0
    /\ error = NoError /\ feedFetches = 0 /\ feedItems = <<>>
    /\ channelInfo = NoChannel

\* AllEpisodesData, ChannelsData and the content of version.json
AllEpisodesData(episodes, providers) ==
    [episodes |-> episodes, total_episodes |-> Len(episodes),
     total_providers |-> Cardinality(providers)]
ChannelsData(channels) ==
    [channels |-> channels, total_channels |-> Len(channels)]
VersionData(now) == [timestamp |-> now]

\* a file of the data directory: absent, holding what writeJSON wrote
\* ("ok"), or holding text that JSON.parse rejects ("corrupt")
File(data) == [state |-> "ok", data |-> data]
AbsentEpisodes == [state |-> "absent", data |-> AllEpisodesData(<<>>, {})]
CorruptEpisodes == [state |-> "corrupt", data |-> AllEpisodesData(<<>>, {})]
AbsentChannels == [state |-> "absent", data |-> ChannelsData(<<>>)]
CorruptChannels == [state |-> "corrupt", data |-> ChannelsData(<<>>)]
AbsentVersion == [state |-> "absent", data |-> VersionData(0)]
CorruptVersion == [state |-> "corrupt", data |-> VersionData(0)]

\* the three files at one moment
Files == [episodes |-> episodesFile, channels |-> channelsFile,
          version |-> versionFile]

\* no saveData call made yet
SaveIdle ==
    [pc |-> "idle", providerName |-> "", episodes |-> <<>>,
     channelInfo |-> NoChannelInfo,
     finalEpisodes |-> AllEpisodesData(<<>>, {}),
     finalChannels |-> ChannelsData(<<>>),
     versionData |-> VersionData(0)]

\* no earlier scrape()
NoRun == [completed |-> FALSE, feedItems |-> <<>>, episodes |-> <<>>,
          dropped |-> {}]

\* an empty data directory
StoreEmpty ==
    /\ episodesFile = AbsentEpisodes
    /\ channelsFile = AbsentChannels
    /\ versionFile = AbsentVersion

\* no read of the store made yet
NoRead ==
    [op |-> "none", provider |-> "", isNull |-> FALSE, episodes |-> <<>>,
     total_episodes |-> 0, ids |-> <<>>,
     store |-> [episodes |-> AbsentEpisodes, channels |-> AbsentChannels,
                version |-> AbsentVersion]]

\* main() not started
MainIdle ==
    [pc |-> "idle", caller |-> "", index |-> 0, ingested |-> {},
     failed |-> ""]

RunIdle ==
    /\ save = SaveIdle /\ rpc = "idle" /\ clock = 0
    /\ before = [episodes |-> AbsentEpisodes, channels |-> AbsentChannels,
                 version |-> AbsentVersion]
    /\ prevRun = NoRun
    /\ loaded = NoRead
    /\ main = MainIdle
    /\ requests = <<>>

----------------------------------------------------------------------------
(* SpecValidate: one direct call validateMp3Url(url, retries)              *)

InitValidate ==
    /\ calls = <<>>
    /\ probeLog = <<>>
    /\ BatchIdle
    /\ IngestIdle
    /\ StoreEmpty
    /\ RunIdle

CallValidateMp3Url ==
    /\ calls = <<>>
    /\ \E url \in URLs, retries \in (-1)..MaxRetries :
          calls' = <<StartCall(url, retries)>>
    /\ UNCHANGED <<probeLog, callerVars, batchVars, ingestVars, storeVars, runVars>>

VProbeReturns ==
    /\ calls # <<>>
    /\ calls[1].pc = "probing"
    /\ \E r \in Responses :
          /\ calls' = [calls EXCEPT ![1] = OnResponse(@, r)]
          /\ probeLog' = Append(probeLog, r)
    /\ UNCHANGED <<batchVars, ingestVars, storeVars, runVars, callerVars>>

VBackoffElapsed ==
    /\ calls # <<>>
    /\ calls[1].pc = "sleeping"
    /\ calls' = [calls EXCEPT ![1] = OnWake(@)]
    /\ UNCHANGED <<probeLog, callerVars, batchVars, ingestVars, storeVars, runVars>>

NextValidate == CallValidateMp3Url \/ VProbeReturns \/ VBackoffElapsed

SpecValidate == InitValidate /\ [][NextValidate]_vars

\* every request settles (axios resolves or rejects, at the latest when the
\* 5 s timer aborts it) and every backoff timer fires
SpecValidateFair ==
    /\ SpecValidate
    /\ WF_vars(VProbeReturns)
    /\ WF_vars(VBackoffElapsed)

----------------------------------------------------------------------------
(* SpecBatch: one call validateMp3UrlsBatch(urls)                          *)

UrlLists == UNION {[1..n -> URLs] : n \in 0..MaxUrls}

InitBatch ==
    /\ calls = <<>>
    /\ probeLog = <<>>
    /\ BatchIdle
    /\ IngestIdle
    /\ StoreEmpty
    /\ RunIdle

CallValidateMp3UrlsBatch ==
    /\ bpc = "idle"
    /\ \E us \in UrlLists : validateMp3UrlsBatch(us)
    /\ UNCHANGED <<probeLog, callerVars, ingestVars, storeVars, runVars>>

NextBatch ==
    CallValidateMp3UrlsBatch \/ ProbeReturns \/ BackoffElapsed \/ BatchResume

SpecBatch == InitBatch /\ [][NextBatch]_vars

----------------------------------------------------------------------------
(* extractPermanentUrl                                                     *)

\* part.toLowerCase() for the parts of a URL: the spellings in other case
\* of the texts the tracking patterns name; every other part is taken to
\* be in lower case already
toLowerCase(part) ==
    CASE part \in {"HTTPS:", "Https:"} -> "https:"
      [] part \in {"HTTP:", "Http:"} -> "http:"
      [] part \in {"WWW.PODTRAC.COM", "www.Podtrac.com"} -> "www.podtrac.com"
      [] part \in {"PTS", "Pts"} -> "pts"
      [] part \in {"REDIRECT.MP3", "Redirect.mp3"} -> "redirect.mp3"
      [] part \in {"DTS.PODTRAC.COM", "dts.Podtrac.com"} -> "dts.podtrac.com"
      [] part \in {"TRACKING.FEEDPRESS.IT", "Tracking.FeedPress.it"}
            -> "tracking.feedpress.it"
      [] part \in {"PRFX.BYSPOTIFY.COM", "prfx.bySpotify.com"}
            -> "prfx.byspotify.com"
      [] part = "E" -> "e"
      [] part \in {"OP3.DEV", "OP3.dev"} -> "op3.dev"
      [] part \in {"PDST.FM", "Pdst.fm"} -> "pdst.fm"
      [] part \in {"PFX.VPIXL.COM", "PFX.vpixl.com"} -> "pfx.vpixl.com"
      [] part \in {"PSCRB.FM", "Pscrb.fm"} -> "pscrb.fm"
      [] part \in {"RSS", "Rss"} -> "rss"
      [] part = "P" -> "p"
      [] OTHER -> part

\* the parts m..n of u in lower case: what a pattern with the i flag
\* compares its text with
LowerParts(u, m, n) == [k \in 1..(n - m + 1) |-> toLowerCase(u[k + m - 1])]

\* /^https?:\/\//i, the head of every pattern
HasScheme(u) == Len(u) >= 1 /\ toLowerCase(u[1]) \in {"http:", "https:"}

StripLiteralKeepScheme(u, prefix) ==
    IF /\ HasScheme(u)
       /\ Len(u) >= Len(prefix) + 2
       /\ LowerParts(u, 2, Len(prefix) + 1) = prefix
    THEN <<u[1]>> \o SubSeq(u, Len(prefix) + 2, Len(u))
    ELSE u

\* u.replace(/^https?:\/\/<prefix>\//i, 'https://') for a literal prefix,
\* given as its parts in lower case: the prefix, in any case, must be
\* followed by a "/"
StripLiteral(u, prefix) ==
    IF /\ HasScheme(u)
       /\ Len(u) >= Len(prefix) + 2
       /\ LowerParts(u, 2, Len(prefix) + 1) = prefix
    THEN <<"https:">> \o SubSeq(u, Len(prefix) + 2, Len(u))
    ELSE u

\* /^https?:\/\/.*?\/redirect\.mp3\//i: everything up to the first part
\* that is redirect.mp3 and is followed by a "/"
StripAnyRedirect(u) ==
    LET hits == {k \in 3..(Len(u) - 1) : toLowerCase(u[k]) = "redirect.mp3"}
    IN  IF HasScheme(u) /\ hits # {}
        THEN LET k == CHOOSE h \in hits : \A g \in hits : h <= g
             IN  <<"https:">> \o SubSeq(u, k + 1, Len(u))
        ELSE u

\* /^https?:\/\/pfx\.vpixl\.com\/[^\/]+\//i
StripVpixl(u) ==
    IF /\ HasScheme(u)
       /\ Len(u) >= 4
       /\ toLowerCase(u[2]) = "pfx.vpixl.com"
       /\ u[3] # ""
    THEN <<"https:">> \o SubSeq(u, 4, Len(u))
    ELSE u

\* the patterns are applied once each, in the order of trackingPatterns
extractPermanentUrl(url) ==
    IF url = EmptyUrl THEN EmptyUrl
    ELSE LET u1 == StripLiteral(url, <<"www.podtrac.com", "pts", "redirect.mp3">>)
             u2 == StripLiteral(u1, <<"dts.podtrac.com", "redirect.mp3">>)
             u3 == StripLiteral(u2, <<"tracking.feedpress.it">>)
             u4 == StripAnyRedirect(u3)
             u5 == StripLiteral(u4, <<"prfx.byspotify.com", "e", "op3.dev", "e">>)
             u6 == StripLiteral(u5, <<"pdst.fm", "e">>)
             u7 == StripVpixl(u6)
             u8 == StripLiteral(u7, <<"pscrb.fm", "rss", "p">>)
         IN  u8

----------------------------------------------------------------------------
(* Feed items and the candidates extractEpisodes derives from them         *)

\* item.pubDate: wall-clock hours since 2025-11-04T00:00 at a UTC offset
\* of `offset` hours; a missing or unparseable date is not valid
PubDate(local, offset) == [valid |-> TRUE, local |-> local, offset |-> offset]
InvalidPubDate == [valid |-> FALSE, local |-> 0, offset |-> 0]

\* item['itunes:episode']
EpisodeTag(n) == [present |-> TRUE, n |-> n]
NoEpisodeTag == [present |-> FALSE, n |-> 0]

\* episode_number: number | null
Null == [isNull |-> TRUE, n |-> 0]
Number(n) == [isNull |-> FALSE, n |-> n]

Item(pubDate, episode, enclosure) ==
    [defined |-> TRUE, pubDate |-> pubDate, episode |-> episode,
     enclosure |-> enclosure]
\* channel.item of a feed without items
Undefined ==
    [defined |-> FALSE, pubDate |-> InvalidPubDate, episode |-> NoEpisodeTag,
     enclosure |-> EmptyUrl]

PubDates == {PubDate(8, 0), PubDate(22, -5), InvalidPubDate}
EpisodeTags == {NoEpisodeTag, EpisodeTag(165)}
Enclosures == {EmptyUrl, TrackedEp1Url}
Items == {Item(d, e, u) : d \in PubDates, e \in EpisodeTags, u \in Enclosures}

\* channel.item as xml2js (explicitArray: false) delivers it: undefined,
\* the item itself when there is one, an array when there are several
ObjectChannelItems ==
    {[isArray |-> FALSE, value |-> it] : it \in Items \cup {Undefined}}
ArrayChannelItems ==
    {[isArray |-> TRUE, value |-> its] :
        its \in UNION {[1..n -> Items] : n \in 2..MaxItems}}

\* new Date(item.pubDate).getTime(), in hours since 2025-11-04T00:00Z
TimeValue(pubDate) == pubDate.local - pubDate.offset

\* pubDate.toISOString().split('T')[0].replace(/-/g, ''): the UTC calendar
\* day, for instants of November 2025 from the 4th on
DateStr(pubDate) == 20251104 + (TimeValue(pubDate) \div 24)

\* item['itunes:episode'] ? parseInt(item['itunes:episode'], 10) : null
ParseEpisodeNumber(tag) == IF tag.present THEN Number(tag.n) ELSE Null

\* `${dateStr}-${providerName}-ep${episodeNumber || 'unknown'}`, as the
\* triple of its three parts; null and 0 are falsy
EpisodeId(dateStr, provider, episodeNumber) ==
    [date |-> dateStr, provider |-> provider,
     ep |-> IF episodeNumber.isNull \/ episodeNumber.n = 0
            THEN [unknown |-> TRUE, n |-> 0]
            ELSE [unknown |-> FALSE, n |-> episodeNumber.n]]

\* the map callback; reading a property of undefined, and toISOString of
\* an invalid date, throw
ItemThrows(item) == ~item.defined \/ ~item.pubDate.valid

ParseItem(item, provider) ==
    LET episodeNumber == ParseEpisodeNumber(item.episode)
    IN  [id |-> EpisodeId(DateStr(item.pubDate), provider, episodeNumber),
         provider |-> provider,
         episode_number |-> episodeNumber,
         date |-> TimeValue(item.pubDate),
         audio_url |-> extractPermanentUrl(item.enclosure)]

\* Array.isArray(items) ? items : [items]
EpisodeArray(channelItem) ==
    IF channelItem.isArray THEN channelItem.value ELSE <<channelItem.value>>

\* parsedEpisodes.filter(ep => this.existingEpisodeIds.has(ep.id))
ExistingEpisodes(parsed, ids) ==
    SelectSeq(parsed, LAMBDA ep : ep.id \in ids)

NewEpisodesUnfiltered(parsed, ids) == parsed

\* parsedEpisodes.filter(ep => !this.existingEpisodeIds.has(ep.id))
NewEpisodes(parsed, ids) ==
    SelectSeq(parsed, LAMBDA ep : ep.id \notin ids)

ValidNewEpisodesUnfiltered(newEps, validationResults) == newEps

\* newEpisodes.filter((_, index) => validationResults[index])
RECURSIVE ValidNewEpisodes(_, _)
ValidNewEpisodes(newEps, validationResults) ==
    IF newEps = <<>> THEN <<>>
    ELSE (IF validationResults[1] THEN <<Head(newEps)>> ELSE <<>>)
         \o ValidNewEpisodes(Tail(newEps), Tail(validationResults))

AudioUrls(eps) == [k \in 1..Len(eps) |-> eps[k].audio_url]

----------------------------------------------------------------------------
(* SpecIngest: one parseFeed() of a constructed RSSFeedParser              *)

Providers == {"darknetdiaries"}

\* ids an earlier run may have stored for the provider
PossibleIds(provider) ==
    {EpisodeId(20251104, provider, Number(165)),
     EpisodeId(20251105, provider, Null)}

InitIngest ==
    /\ calls = <<>>
    /\ probeLog = <<>>
    /\ BatchIdle
    /\ providerName \in Providers
    /\ existingEpisodeIds \in SUBSET PossibleIds(providerName)
    /\ ipc = "constructed"
    /\ parsedEpisodes = <<>>
    /\ episodesOut = <<>>
    /\ batchInvocations = 0
    /\ error = NoError
    /\ feedFetches = 0
    /\ feedItems = <<>>
    /\ channelInfo = NoChannel
    /\ StoreEmpty
    /\ RunIdle

\* parseFeed() up to the await of axios.get in fetchFeed
ParseFeedCall ==
    /\ ipc = "constructed"
    /\ ipc' = "fetching"
    /\ feedFetches' = feedFetches + 1
    /\ UNCHANGED <<calls, probeLog, callerVars, batchVars, providerName,
                   existingEpisodeIds, parsedEpisodes, episodesOut,
                   batchInvocations, error, feedItems, channelInfo,
                   storeVars, runVars>>

FetchFailsRetry ==
    /\ ipc = "fetching"
    /\ IF feedFetches < 2
       THEN ipc' = "constructed" /\ UNCHANGED error
       ELSE ipc' = "failed" /\ error' = FetchError
    /\ UNCHANGED <<calls, probeLog, callerVars, batchVars, providerName,
                   existingEpisodeIds, parsedEpisodes, episodesOut,
                   batchInvocations, feedFetches, feedItems, channelInfo,
                   storeVars, runVars>>

\* axios.get rejected: fetchFeed throws and parseFeed rejects
FetchFails ==
    /\ ipc = "fetching"
    /\ ipc' = "failed"
    /\ error' = FetchError
    /\ UNCHANGED <<calls, probeLog, callerVars, batchVars, providerName,
                   existingEpisodeIds, parsedEpisodes, episodesOut,
                   batchInvocations, feedFetches, feedItems, channelInfo,
                   storeVars, runVars>>

\* parseFeed after the feed is parsed: extractEpisodes up to the await of
\* validateMp3UrlsBatch, or to its return when nothing is new
ExtractEpisodes(channelItem) ==
    LET episodeArray == EpisodeArray(channelItem)
        parsed == [k \in 1..Len(episodeArray) |->
                      ParseItem(episodeArray[k], providerName)]
        newEps == NewEpisodes(parsed, existingEpisodeIds)
    IN  IF \E k \in 1..Len(episodeArray) : ItemThrows(episodeArray[k])
        THEN /\ ipc' = "failed"
             /\ error' = ItemError
             /\ UNCHANGED <<calls, batchVars, parsedEpisodes, episodesOut,
                            batchInvocations>>
        ELSE /\ parsedEpisodes' = parsed
             /\ UNCHANGED error
             /\ IF Len(newEps) > 0
                THEN /\ validateMp3UrlsBatch(AudioUrls(newEps))
                     /\ batchInvocations' = batchInvocations + 1
                     /\ ipc' = "validating"
                     /\ UNCHANGED episodesOut
                ELSE /\ episodesOut' =
                          ExistingEpisodes(parsed, existingEpisodeIds)
                     /\ ipc' = "done"
                     /\ UNCHANGED <<calls, batchVars, batchInvocations>>

\* A text of the feed is the sequence of its pieces: the CDATA markers
\* "<![CDATA[" and "]]>", runs of white space, and the text between them.
IsWhiteSpace(piece) == piece \in {" ", "\t", "\n"}

RECURSIVE TrimStart(_)
TrimStart(text) ==
    IF text # <<>> /\ IsWhiteSpace(Head(text))
    THEN TrimStart(Tail(text)) ELSE text

RECURSIVE TrimEnd(_)
TrimEnd(text) ==
    IF text # <<>> /\ IsWhiteSpace(text[Len(text)])
    THEN TrimEnd(SubSeq(text, 1, Len(text) - 1)) ELSE text

\* the string the pieces spell
RECURSIVE Joined(_)
Joined(text) == IF text = <<>> THEN "" ELSE Head(text) \o Joined(Tail(text))

\* cleanCDATA(text): a CDATA marker at the very start and one at the very
\* end are removed, in this order, and the rest is trimmed
cleanCDATA(text) ==
    IF text = <<>> THEN ""
    ELSE LET opened == IF Head(text) = "<![CDATA[" THEN Tail(text) ELSE text
             closed == IF opened # <<>> /\ opened[Len(opened)] = "]]>"
                       THEN SubSeq(opened, 1, Len(opened) - 1)
                       ELSE opened
         IN  Joined(TrimEnd(TrimStart(closed)))

\* channel.title of the feeds fetched: plain, wrapped in CDATA, padded
\* with blanks, and with a closing marker alone
FeedTitles ==
    {<<"Darknet Diaries">>,
     <<"<![CDATA[", "Darknet Diaries", "]]>">>,
     <<" ", "Darknet Diaries", " ">>,
     <<"Darknet Diaries", "]]>">>}

\* extractChannelInfo(channel), with channel.title = title
extractChannelInfo(title) == Channel(providerName, cleanCDATA(title), 0)

\* parseFeed from the return of fetchFeed on, for a feed whose channel has
\* this title and this channel.item
ParseFetched(title, channelItem) ==
    /\ channelInfo' = extractChannelInfo(title)
    /\ feedItems' = EpisodeArray(channelItem)
    /\ ExtractEpisodes(channelItem)

\* axios.get resolved with a feed
FetchReturns ==
    /\ ipc = "fetching"
    /\ \E title \in FeedTitles :
          \/ \E channelItem \in ObjectChannelItems :
                ParseFetched(title, channelItem)
          \/ \E channelItem \in ArrayChannelItems :
                ParseFetched(title, channelItem)
    /\ UNCHANGED <<probeLog, callerVars, providerName, existingEpisodeIds, feedFetches,
                   storeVars, runVars>>

\* the continuation of `await this.validateMp3UrlsBatch(...)`
ExtractEpisodesResume ==
    /\ ipc = "validating"
    /\ bpc \in {"done", "rejected"}
    /\ IF bpc = "rejected"
       THEN /\ ipc' = "failed"
            /\ error' = BatchError
            /\ UNCHANGED episodesOut
       ELSE /\ episodesOut' =
                 ExistingEpisodes(parsedEpisodes, existingEpisodeIds)
                 \o ValidNewEpisodes(
                        NewEpisodes(parsedEpisodes, existingEpisodeIds),
                        results)
            /\ ipc' = "done"
            /\ UNCHANGED error
    /\ UNCHANGED <<calls, probeLog, callerVars, batchVars, providerName,
                   existingEpisodeIds, parsedEpisodes, batchInvocations,
                   feedFetches, feedItems, channelInfo, storeVars, runVars>>

NextIngest ==
    \/ ParseFeedCall
    \/ FetchFails
    \/ FetchReturns
    \/ ProbeReturns
    \/ BackoffElapsed
    \/ BatchResume
    \/ ExtractEpisodesResume

SpecIngest == InitIngest /\ [][NextIngest]_vars

----------------------------------------------------------------------------
(* SpecDerive: the map callback of extractEpisodes, item by item           *)

MaxDerived == 2

\* provider names parsers are constructed with: two of the repository's,
\* and two that end the way an id does
DeriveProviders ==
    {"darknetdiaries", "hardfork", "darknetdiaries-ep1",
     "darknetdiaries-epunknown"}

Origin == <<"traffic.example.com", "ep1.mp3">>

\* what may stand between the scheme and the origin of an enclosure URL:
\* nothing, each of the eight tracking prefixes, prefixes stacked in the
\* order of trackingPatterns and against it, and three that are no prefix
\* of the list (a host alone, a prefix not in front, another host)
UrlPrefixes ==
    {<<>>,
     <<"www.podtrac.com", "pts", "redirect.mp3">>,
     <<"dts.podtrac.com", "redirect.mp3">>,
     <<"tracking.feedpress.it">>,
     <<"media.example.org", "redirect.mp3">>,
     <<"prfx.byspotify.com", "e", "op3.dev", "e">>,
     <<"pdst.fm", "e">>,
     <<"pfx.vpixl.com", "6qj4J">>,
     <<"pscrb.fm", "rss", "p">>,
     <<"dts.podtrac.com", "redirect.mp3", "pdst.fm", "e">>,
     <<"dts.podtrac.com", "redirect.mp3", "pdst.fm", "e", "pfx.vpixl.com",
       "6qj4J", "pscrb.fm", "rss", "p">>,
     <<"pscrb.fm", "rss", "p", "pdst.fm", "e">>,
     <<"pdst.fm">>,
     <<"cdn.example.org", "pdst.fm", "e">>,
     <<"cdn.example.org">>}

\* enclosure URLs with a scheme, a host or a path written in another case
MixedCaseUrls ==
    {<<"HTTPS:", "dts.podtrac.com", "redirect.mp3">> \o Origin,
     <<"Http:", "pdst.fm", "e">> \o Origin,
     <<"HTTP:">> \o Origin,
     <<"https:", "DTS.PODTRAC.COM", "redirect.mp3">> \o Origin,
     <<"https:", "dts.podtrac.com", "Redirect.mp3">> \o Origin,
     <<"https:", "chtbl.com", "track", "REDIRECT.MP3">> \o Origin,
     <<"https:", "PFX.vpixl.com", "abc">> \o Origin,
     <<"https:", "Tracking.FeedPress.it">> \o Origin}

\* item.enclosure.url: missing, or a URL of either scheme; one URL is a
\* tracking host with nothing after it
DeriveUrls ==
    {EmptyUrl, <<"https:", "tracking.feedpress.it">>}
    \cup MixedCaseUrls
    \cup {<<scheme>> \o prefix \o Origin :
             scheme \in {"https:", "http:"}, prefix \in UrlPrefixes}

\* the items handed to the callback, with the provider of the parser:
\* every provider with dated items of every episode tag, and one provider
\* with items without a parseable pubDate and with every enclosure URL
DeriveInputs ==
    {[provider |-> p, item |-> Item(d, t, TrackedEp1Url)] :
        p \in DeriveProviders,
        d \in {PubDate(8, 0), PubDate(22, -5)},
        t \in {NoEpisodeTag, EpisodeTag(0), EpisodeTag(1), EpisodeTag(165)}}
    \cup {[provider |-> "darknetdiaries",
           item |-> Item(InvalidPubDate, t, TrackedEp1Url)] :
             t \in {NoEpisodeTag, EpisodeTag(165)}}
    \cup {[provider |-> "darknetdiaries",
           item |-> Item(PubDate(8, 0), EpisodeTag(165), u)] :
             u \in DeriveUrls}

InitDerive ==
    /\ calls = <<>>
    /\ probeLog = <<>>
    /\ BatchIdle
    /\ IngestIdle
    /\ StoreEmpty
    /\ RunIdle

\* the callback returns the candidate of one more item
ItemMapped ==
    /\ ipc # "failed"
    /\ Len(feedItems) < MaxDerived
    /\ \E inp \in DeriveInputs :
          /\ ~ItemThrows(inp.item)
          /\ providerName' = inp.provider
          /\ feedItems' = Append(feedItems, inp.item)
          /\ parsedEpisodes' =
                 Append(parsedEpisodes, ParseItem(inp.item, inp.provider))
    /\ ipc' = "constructed"
    /\ UNCHANGED <<calls, probeLog, callerVars, batchVars, existingEpisodeIds,
                   episodesOut, batchInvocations, error, feedFetches,
                   channelInfo, storeVars, runVars>>

\* the callback throws on one more item: map, extractEpisodes and
\* parseFeed are left by the exception
ItemMapThrows ==
    /\ ipc # "failed"
    /\ Len(feedItems) < MaxDerived
    /\ \E inp \in DeriveInputs :
          /\ ItemThrows(inp.item)
          /\ providerName' = inp.provider
          /\ feedItems' = Append(feedItems, inp.item)
    /\ ipc' = "failed"
    /\ error' = ItemError
    /\ UNCHANGED <<calls, probeLog, callerVars, batchVars, existingEpisodeIds,
                   parsedEpisodes, episodesOut, batchInvocations,
                   feedFetches, channelInfo, storeVars, runVars>>

NextDerive == ItemMapped \/ ItemMapThrows

SpecDerive == InitDerive /\ [][NextDerive]_vars

\* the id as the string the template literal builds, cut into the pieces
\* "-", "ep", "unknown", decimal digits and provider words
Digit(d) == <<"0", "1", "2", "3", "4", "5", "6", "7", "8", "9">>[d + 1]

\* String(n) of a non-negative integer
RECURSIVE Decimal(_)
Decimal(n) ==
    IF n < 10 THEN <<Digit(n)>>
    ELSE Decimal(n \div 10) \o <<Digit(n % 10)>>

\* this.providerName
ProviderText(provider) ==
    CASE provider = "darknetdiaries-ep1" ->
             <<"darknetdiaries", "-", "ep", "1">>
      [] provider = "darknetdiaries-epunknown" ->
             <<"darknetdiaries", "-", "ep", "unknown">>
      [] OTHER -> <<provider>>

IdTextNoProvider(id) ==
    Decimal(id.date) \o <<"-", "ep">>
    \o (IF id.ep.unknown THEN <<"unknown">> ELSE Decimal(id.ep.n))

\* `${dateStr}-${this.providerName}-ep${episodeNumber || 'unknown'}`
IdText(id) ==
    Decimal(id.date) \o <<"-">> \o ProviderText(id.provider) \o <<"-", "ep">>
    \o (IF id.ep.unknown THEN <<"unknown">> ELSE Decimal(id.ep.n))

----------------------------------------------------------------------------
(* DataStorage: saveData and the files it reads and writes                 *)

feedVars == <<providerName, existingEpisodeIds, ipc, parsedEpisodes,
              episodesOut, batchInvocations, feedFetches, feedItems,
              channelInfo>>

\* existingMap.set(entry.id, entry) on a Map kept in insertion order: a key
\* already present keeps its place and takes the new value
MapSet(m, entry) ==
    IF \E k \in DOMAIN m : m[k].id = entry.id
    THEN [k \in DOMAIN m |-> IF m[k].id = entry.id THEN entry ELSE m[k]]
    ELSE Append(m, entry)

\* entries.forEach(entry => existingMap.set(entry.id, entry))
RECURSIVE MapSetAll(_, _)
MapSetAll(m, entries) ==
    IF entries = <<>> THEN m
    ELSE MapSetAll(MapSet(m, Head(entries)), Tail(entries))

SortByDateDescUnsorted(eps) == eps

\* Array.prototype.sort (stable) with
\* (a, b) => new Date(b.date).getTime() - new Date(a.date).getTime()
SortByDateDesc(eps) ==
    LET Place(k) ==
            1 + Cardinality({j \in DOMAIN eps :
                                \/ eps[j].date > eps[k].date
                                \/ eps[j].date = eps[k].date /\ j < k})
    IN  [n \in DOMAIN eps |-> eps[CHOOSE k \in DOMAIN eps : Place(k) = n]]

\* the order localeCompare gives the channel names in use
LocaleRank(name) ==
    CASE name = "" -> 0
      [] name = "Darknet Diaries" -> 1
      [] name = "De Dag" -> 2
      [] name = "Hard Fork" -> 3
      [] name = "Maarten van Rossem" -> 4
      [] name = "NRC Vandaag" -> 5
      [] name = "SANS Stormcast" -> 6
      [] name = "The Daily" -> 7
      [] OTHER -> 8

SortByNameUnsorted(chs) == chs

\* Array.prototype.sort (stable) with (a, b) => a.name.localeCompare(b.name)
SortByName(chs) ==
    LET Place(k) ==
            1 + Cardinality({j \in DOMAIN chs :
                                \/ LocaleRank(chs[j].name) < LocaleRank(chs[k].name)
                                \/ /\ LocaleRank(chs[j].name) = LocaleRank(chs[k].name)
                                   /\ j < k})
    IN  [n \in DOMAIN chs |-> chs[CHOOSE k \in DOMAIN chs : Place(k) = n]]

ProvidersOf(eps) == {eps[k].provider : k \in DOMAIN eps}

\* JSON.parse(await fs.readFile(...)) inside try/catch: null unless the
\* file holds what writeJSON wrote
Readable(file) == file.state = "ok"

MergedEpisodesKeyed(file, newEpisodes) ==
    SortByDateDesc(
        MapSetAll(IF Readable(file) THEN MapSetAll(<<>>, file.data.episodes)
                  ELSE <<>>,
                  newEpisodes))

\* mergedEpisodes of saveToEpisodes
MergedEpisodes(file, newEpisodes) ==
    IF Readable(file)
    THEN SortByDateDesc(
             MapSetAll(MapSetAll(<<>>, file.data.episodes), newEpisodes))
    ELSE SortByDateDesc(newEpisodes)

FinalEpisodesIncomingProviders(file, newEpisodes) ==
    AllEpisodesData(MergedEpisodes(file, newEpisodes),
                    ProvidersOf(newEpisodes))

\* finalData of saveToEpisodes
FinalEpisodes(file, newEpisodes) ==
    AllEpisodesData(
        MergedEpisodes(file, newEpisodes),
        IF Readable(file)
        THEN ProvidersOf(file.data.episodes) \cup ProvidersOf(newEpisodes)
        ELSE ProvidersOf(newEpisodes))

\* channels of saveToChannels
MergedChannels(file, channel, episodeCount) ==
    LET updated == [channel EXCEPT !.total_episodes = episodeCount]
    IN  IF Readable(file)
        THEN SortByName(MapSet(MapSetAll(<<>>, file.data.channels), updated))
        ELSE <<updated>>

\* finalData of saveToChannels
FinalChannels(file, channel, episodeCount) ==
    ChannelsData(MergedChannels(file, channel, episodeCount))

\* saveData(providerName, data) up to the await of fs.access
SaveData(provider, data) ==
    save' = [SaveIdle EXCEPT !.pc = "ensuring",
                             !.providerName = provider,
                             !.episodes = data.episodes,
                             !.channelInfo = data.channelInfo]

\* the data directory is there, or mkdir made it: saveToEpisodes up to
\* the await of readFile
DirectoryReady ==
    /\ save.pc = "ensuring"
    /\ save' = [save EXCEPT !.pc = "reading episodes"]
    /\ UNCHANGED <<calls, probeLog, callerVars, batchVars, ingestVars, storeVars, rpc,
                   clock, before, prevRun>>

\* the data directory is missing and mkdir rejects
MkdirFails ==
    /\ save.pc = "ensuring"
    /\ StoreEmpty
    /\ save' = [save EXCEPT !.pc = "failed"]
    /\ error' = MkdirError
    /\ UNCHANGED <<calls, probeLog, callerVars, batchVars, feedVars, storeVars, rpc,
                   clock, before, prevRun>>

\* saveToEpisodes from the return of readFile to the await of writeFile
EpisodesRead ==
    /\ save.pc = "reading episodes"
    /\ save' = [save EXCEPT
                   !.pc = "writing episodes",
                   !.finalEpisodes = FinalEpisodes(episodesFile, save.episodes)]
    /\ UNCHANGED <<calls, probeLog, callerVars, batchVars, ingestVars, storeVars, rpc,
                   clock, before, prevRun>>

\* episodes.json written: saveToChannels up to the await of readFile or,
\* without channelInfo, updateVersion up to the await of writeFile
EpisodesWritten ==
    /\ save.pc = "writing episodes"
    /\ episodesFile' = File(save.finalEpisodes)
    /\ IF save.channelInfo.present
       THEN save' = [save EXCEPT !.pc = "reading channels"]
       ELSE save' = [save EXCEPT !.pc = "writing version",
                                 !.versionData = VersionData(clock)]
    /\ UNCHANGED <<calls, probeLog, callerVars, batchVars, ingestVars, channelsFile,
                   versionFile, rpc, clock, before, prevRun>>

\* fs.writeFile of episodes.json rejects, before or after it truncated
\* the file
EpisodesWriteFails ==
    /\ save.pc = "writing episodes"
    /\ episodesFile' \in {episodesFile, CorruptEpisodes}
    /\ save' = [save EXCEPT !.pc = "failed"]
    /\ error' = WriteError
    /\ UNCHANGED <<calls, probeLog, callerVars, batchVars, feedVars, channelsFile,
                   versionFile, rpc, clock, before, prevRun>>

\* saveToChannels from the return of readFile to the await of writeFile
ChannelsRead ==
    /\ save.pc = "reading channels"
    /\ save' = [save EXCEPT
                   !.pc = "writing channels",
                   !.finalChannels =
                       FinalChannels(channelsFile, save.channelInfo.value,
                                     Len(save.episodes))]
    /\ UNCHANGED <<calls, probeLog, callerVars, batchVars, ingestVars, storeVars, rpc,
                   clock, before, prevRun>>

\* channels.json written: updateVersion up to the await of writeFile
ChannelsWritten ==
    /\ save.pc = "writing channels"
    /\ channelsFile' = File(save.finalChannels)
    /\ save' = [save EXCEPT !.pc = "writing version",
                            !.versionData = VersionData(clock)]
    /\ UNCHANGED <<calls, probeLog, callerVars, batchVars, ingestVars, episodesFile,
                   versionFile, rpc, clock, before, prevRun>>

ChannelsWriteFails ==
    /\ save.pc = "writing channels"
    /\ channelsFile' \in {channelsFile, CorruptChannels}
    /\ save' = [save EXCEPT !.pc = "failed"]
    /\ error' = WriteError
    /\ UNCHANGED <<calls, probeLog, callerVars, batchVars, feedVars, episodesFile,
                   versionFile, rpc, clock, before, prevRun>>

\* version.json written: saveData resolves
VersionWritten ==
    /\ save.pc = "writing version"
    /\ versionFile' = File(save.versionData)
    /\ save' = [save EXCEPT !.pc = "done"]
    /\ UNCHANGED <<calls, probeLog, callerVars, batchVars, ingestVars, episodesFile,
                   channelsFile, rpc, clock, before, prevRun>>

VersionWriteFails ==
    /\ save.pc = "writing version"
    /\ versionFile' \in {versionFile, CorruptVersion}
    /\ save' = [save EXCEPT !.pc = "failed"]
    /\ error' = WriteError
    /\ UNCHANGED <<calls, probeLog, callerVars, batchVars, feedVars, episodesFile,
                   channelsFile, rpc, clock, before, prevRun>>

----------------------------------------------------------------------------
(* SpecStore: saveData calls one after the other on one data directory     *)

MaxSaves == 2
MaxIncoming == 2

StoreProviders == {"darknetdiaries", "hardfork"}

\* the title of a provider's feed
ChannelTitle(provider) ==
    CASE provider = "darknetdiaries" -> "Darknet Diaries"
      [] provider = "sansstormcast" -> "SANS Stormcast"
      [] provider = "thedaily" -> "The Daily"
      [] provider = "nrcvandaag" -> "NRC Vandaag"
      [] provider = "dedag" -> "De Dag"
      [] provider = "maartenvanrossem" -> "Maarten van Rossem"
      [] OTHER -> "Hard Fork"

\* feed items of a provider. darknetdiaries: two published the same UTC
\* day under the same episode number, and one of the next day without a
\* number; hardfork: one
StoreItems(provider) ==
    IF provider = "darknetdiaries"
    THEN {Item(PubDate(8, 0), EpisodeTag(165), TrackedEp1Url),
          Item(PubDate(20, 0), EpisodeTag(165), TrackedEp1Url),
          Item(PubDate(22, -5), NoEpisodeTag, TrackedEp1Url)}
    ELSE {Item(PubDate(8, 0), EpisodeTag(165), TrackedEp1Url)}

\* the episodes a parser of this provider returns for them
StoreEpisodes(provider) ==
    {ParseItem(it, provider) : it \in StoreItems(provider)}

\* the PodcastData a parser of this provider may return
PodcastDatas(provider) ==
    {[episodes |-> eps, channelInfo |-> ci] :
        eps \in UNION {[1..n -> StoreEpisodes(provider)] : n \in 0..MaxIncoming},
        ci \in {NoChannelInfo,
                ChannelInfo(Channel(provider, ChannelTitle(provider), 0))}}

InitStore ==
    /\ calls = <<>>
    /\ probeLog = <<>>
    /\ BatchIdle
    /\ IngestIdle
    /\ StoreEmpty
    /\ RunIdle

SaveDataCall ==
    /\ save.pc \in {"idle", "done", "failed"}
    /\ clock < MaxSaves
    /\ clock' = clock + 1
    /\ before' = Files
    /\ error' = NoError
    /\ \E provider \in StoreProviders :
          \E data \in PodcastDatas(provider) : SaveData(provider, data)
    /\ UNCHANGED <<calls, probeLog, callerVars, batchVars, feedVars, storeVars, rpc,
                   prevRun>>

SaveSteps ==
    \/ DirectoryReady
    \/ MkdirFails
    \/ EpisodesRead
    \/ EpisodesWritten
    \/ EpisodesWriteFails
    \/ ChannelsRead
    \/ ChannelsWritten
    \/ ChannelsWriteFails
    \/ VersionWritten
    \/ VersionWriteFails

NextStore == SaveDataCall \/ SaveSteps

SpecStore == InitStore /\ [][NextStore]_vars

----------------------------------------------------------------------------
(* SpecMain: main() and runAllScrapers(), one scraper after the other,     *)
(* each suspended at the awaits of its saveData                            *)

\* the scrapers in the order main and runAllScrapers await them
MainScrapers ==
    <<"darknetdiaries", "sansstormcast", "thedaily", "nrcvandaag", "dedag",
      "maartenvanrossem", "hardfork">>

\* what a scrape() may hand to saveData: no episode, or one of two
MainEpisodes(provider) ==
    {<<>>}
    \cup {<<ParseItem(it, provider)>> :
             it \in {Item(PubDate(8, 0), EpisodeTag(165), TrackedEp1Url),
                     Item(PubDate(22, -5), NoEpisodeTag, TrackedEp1Url)}}

InitMain ==
    /\ calls = <<>>
    /\ probeLog = <<>>
    /\ BatchIdle
    /\ IngestIdle
    /\ StoreEmpty
    /\ RunIdle

\* main() or runAllScrapers() up to the await of the first scraper
MainCall ==
    /\ main.pc = "idle"
    /\ \E caller \in {"main", "runAllScrapers"} :
          main' = [MainIdle EXCEPT !.pc = "running", !.caller = caller,
                                   !.index = 1]
    /\ before' = Files
    /\ UNCHANGED <<calls, probeLog, loaded, requests, batchVars, ingestVars, storeVars,
                   save, rpc, clock, prevRun>>

\* the awaited scraper got its feed and parsed it: scrape() up to the
\* first await of saveData
ScraperParsed ==
    /\ main.pc = "running"
    /\ LET provider == MainScrapers[main.index]
       IN  \E episodes \in MainEpisodes(provider) :
              SaveData(provider,
                       [episodes |-> episodes,
                        channelInfo |->
                            ChannelInfo(Channel(provider,
                                                ChannelTitle(provider), 0))])
    /\ clock' = clock + 1
    /\ main' = [main EXCEPT !.pc = "saving"]
    /\ UNCHANGED <<calls, probeLog, loaded, requests, batchVars, ingestVars,
                   storeVars, rpc, before, prevRun>>

\* saveData resolved and with it the awaited scraper: the caller up to
\* the await of the next scraper, or to its end
ScraperResolves ==
    /\ main.pc = "saving"
    /\ save.pc = "done"
    /\ save' = SaveIdle
    /\ main' = [main EXCEPT
                   !.pc = IF main.index = Len(MainScrapers)
                          THEN "completed" ELSE "running",
                   !.index = IF main.index = Len(MainScrapers)
                             THEN main.index ELSE main.index + 1,
                   !.ingested = main.ingested \cup {MainScrapers[main.index]}]
    /\ UNCHANGED <<calls, probeLog, loaded, requests, batchVars, ingestVars,
                   storeVars, rpc, clock, before, prevRun>>

\* the awaited scraper rejected, its feed not fetched or not parsed, or
\* its saveData rejected: the catch block of the caller, where main exits
\* the process and runAllScrapers returns {success: false}
ScraperRejects ==
    /\ \/ /\ main.pc = "running"
          /\ error' \in {FetchError, ItemError}
       \/ /\ main.pc = "saving"
          /\ save.pc = "failed"
          /\ UNCHANGED error
    /\ main' = [main EXCEPT
                   !.pc = IF main.caller = "main" THEN "exited"
                          ELSE "returned failure",
                   !.failed = MainScrapers[main.index]]
    /\ UNCHANGED <<calls, probeLog, loaded, requests, batchVars, feedVars,
                   storeVars, runVars>>

NextMain ==
    \/ MainCall
    \/ ScraperParsed
    \/ SaveSteps
    \/ ScraperResolves
    \/ ScraperRejects

SpecMain == InitMain /\ [][NextMain]_vars

----------------------------------------------------------------------------
(* DataStorage.loadData and DataStorage.getExistingEpisodeIds              *)

loadDataUnfiltered(file, provider) ==
    IF Readable(file)
    THEN [isNull |-> FALSE, episodes |-> file.data.episodes,
          total_episodes |-> Len(file.data.episodes)]
    ELSE [isNull |-> TRUE, episodes |-> <<>>, total_episodes |-> 0]

\* loadData(providerName): the provider's stored episodes in stored order
\* with their count, null when episodes.json cannot be read and parsed
loadData(file, provider) ==
    IF Readable(file)
    THEN LET providerEpisodes ==
                 SelectSeq(file.data.episodes,
                           LAMBDA ep : ep.provider = provider)
         IN  [isNull |-> FALSE, episodes |-> providerEpisodes,
              total_episodes |-> Len(providerEpisodes)]
    ELSE [isNull |-> TRUE, episodes |-> <<>>, total_episodes |-> 0]

\* the array getExistingEpisodeIds(providerName) resolves with: the ids of
\* the provider's stored episodes in stored order, [] when episodes.json
\* cannot be read and parsed
existingIds(file, provider) ==
    IF Readable(file)
    THEN LET providerEpisodes ==
                 SelectSeq(file.data.episodes,
                           LAMBDA ep : ep.provider = provider)
         IN  [k \in DOMAIN providerEpisodes |-> providerEpisodes[k].id]
    ELSE <<>>

\* no saveData call is under way
StoreAtRest == save.pc \in {"idle", "done", "failed"}

\* a call of getExistingEpisodeIds, made while no saveData call is under
\* way, from its start to its return
GetExistingEpisodeIdsCall ==
    /\ StoreAtRest
    /\ \E provider \in StoreProviders :
          loaded' = [NoRead EXCEPT
                        !.op = "getExistingEpisodeIds",
                        !.provider = provider,
                        !.ids = existingIds(episodesFile, provider),
                        !.store = Files]
    /\ UNCHANGED <<calls, probeLog, main, requests, batchVars, ingestVars, storeVars,
                   runVars>>

\* a call of loadData, made while no saveData call is under way, from its
\* start to its return
LoadDataCall ==
    /\ StoreAtRest
    /\ \E provider \in StoreProviders :
          LET data == loadData(episodesFile, provider)
          IN  loaded' = [NoRead EXCEPT
                            !.op = "loadData",
                            !.provider = provider,
                            !.isNull = data.isNull,
                            !.episodes = data.episodes,
                            !.total_episodes = data.total_episodes,
                            !.store = Files]
    /\ UNCHANGED <<calls, probeLog, main, requests, batchVars, ingestVars, storeVars,
                   runVars>>

\* the episode lists a provider's saveData calls may carry
IncomingEpisodes(provider) ==
    UNION {[1..n -> StoreEpisodes(provider)] : n \in 0..MaxIncoming}

\* episodes.json as one saveData call leaves it, and as a second one on
\* that file leaves it
OnceSaved ==
    {File(FinalEpisodes(AbsentEpisodes, episodes)) :
        episodes \in UNION {IncomingEpisodes(p) : p \in StoreProviders}}
TwiceSaved ==
    UNION {{File(FinalEpisodes(file, episodes)) :
               episodes \in UNION {IncomingEpisodes(p) : p \in StoreProviders}} :
           file \in OnceSaved}

\* the data directory when loadData or getExistingEpisodeIds is called:
\* episodes.json missing, left unparseable by a failed write, or written by
\* saveData calls whose write of channels.json failed, before or after it
\* truncated the file
InitRead ==
    /\ calls = <<>>
    /\ probeLog = <<>>
    /\ BatchIdle
    /\ IngestIdle
    /\ episodesFile \in {AbsentEpisodes, CorruptEpisodes} \cup OnceSaved
                          \cup TwiceSaved
    /\ channelsFile \in IF episodesFile = AbsentEpisodes
                        THEN {AbsentChannels}
                        ELSE {AbsentChannels, CorruptChannels}
    /\ versionFile = AbsentVersion
    /\ RunIdle

NextRead == GetExistingEpisodeIdsCall \/ LoadDataCall

SpecRead == InitRead /\ [][NextRead]_vars

----------------------------------------------------------------------------
(* Properties of validateMp3Url, under SpecValidate                        *)

Called == calls # <<>>

\* C1: a 404 on any attempt ends the call at once with false: it is the
\* last response received, no probe is issued after it and no backoff is
\* waited after it, however many attempts remain.
C1_NotFoundReturnsFalseAtOnce ==
    Called =>
        \A k \in 1..Len(probeLog) :
            probeLog[k] = Status(404) =>
                /\ k = Len(probeLog)
                /\ calls[1].pc = "done"
                /\ calls[1].result = FALSE
                /\ calls[1].probes = k
                /\ Len(calls[1].delays) = k - 1

C1_Witness ==
    /\ Called
    /\ calls[1].retries = 4
    /\ probeLog = <<Status(503), Status(404)>>
    /\ calls[1].pc = "done"

\* C2: the first 200 ends the call with true and no later attempt is
\* issued; the call returns true exactly when some attempt received 200
\* and no earlier attempt received 404.
C2_OkReturnsTrueAtOnce ==
    Called =>
        /\ \A k \in 1..Len(probeLog) :
              probeLog[k] = Status(200) =>
                  /\ k = Len(probeLog)
                  /\ calls[1].pc = "done"
                  /\ calls[1].result = TRUE
                  /\ calls[1].probes = k
        /\ calls[1].pc = "done" =>
              (calls[1].result = TRUE <=>
                  \E k \in 1..Len(probeLog) :
                      /\ probeLog[k] = Status(200)
                      /\ \A j \in 1..(k - 1) : probeLog[j] # Status(404))

C2_Witness ==
    /\ Called
    /\ probeLog = <<NetworkError, Status(200)>>
    /\ calls[1].retries = 3
    /\ calls[1].result = TRUE

Transient(r) == r # Status(200) /\ r # Status(404)

\* C3: with retries = n >= 1 and a non-empty URL, when every attempt ends
\* in another status, a network error or a timeout, the call resolves with
\* false after exactly n probes; it never rejects and never issues more
\* than n probes.
C3_ExhaustedAttemptsReturnFalse ==
    (Called /\ calls[1].retries >= 1 /\ calls[1].url # EmptyUrl) =>
        /\ calls[1].probes <= calls[1].retries
        /\ calls[1].pc # "rejected"
        /\ (/\ ~InFlight(calls[1])
            /\ \A k \in 1..Len(probeLog) : Transient(probeLog[k]))
           => /\ calls[1].pc = "done"
              /\ calls[1].result = FALSE
              /\ calls[1].probes = calls[1].retries
              /\ Len(probeLog) = calls[1].retries

C3_Witness ==
    /\ Called
    /\ calls[1].retries = 3
    /\ probeLog = <<Status(503), Timeout, NetworkError>>
    /\ calls[1].pc = "done"
    /\ calls[1].probes = 3

\* C4: the k-th backoff wait, between failed attempt k and attempt k+1,
\* is k * 1000 ms whatever the kind of failure, so the delays increase
\* strictly; one wait follows every failed attempt but the final one.
C4_LinearBackoff ==
    Called =>
        LET c == calls[1] IN
        /\ \A k \in 1..Len(c.delays) : c.delays[k] = k * 1000
        /\ \A k \in 1..(Len(c.delays) - 1) : c.delays[k] < c.delays[k + 1]
        /\ c.pc = "sleeping" => Len(c.delays) = Len(probeLog)
        /\ c.pc = "probing" => Len(c.delays) = Len(probeLog)
        /\ (c.pc = "done" /\ probeLog # <<>>)
              => Len(c.delays) = Len(probeLog) - 1

C4_Witness ==
    /\ Called
    /\ probeLog = <<Status(503), NetworkError, Timeout, Status(503)>>
    /\ calls[1].delays = <<1000, 2000, 3000>>
    /\ calls[1].pc = "done"

\* C5: with an empty URL the call returns false without any probe, for
\* every value of retries.
C5_EmptyUrlReturnsFalse ==
    (Called /\ calls[1].url = EmptyUrl) =>
        /\ calls[1].pc = "done"
        /\ calls[1].result = FALSE
        /\ calls[1].probes = 0
        /\ probeLog = <<>>

C5_Witness ==
    /\ Called
    /\ calls[1].url = EmptyUrl
    /\ calls[1].retries = 3
    /\ calls[1].pc = "done"

----------------------------------------------------------------------------
(* Properties of validateMp3UrlsBatch, under SpecBatch                     *)

\* 0-based number of the window that holds position k
WindowNo(k) == (k - 1) \div BATCH_SIZE

NumInFlight == Cardinality({k \in DOMAIN calls : InFlight(calls[k])})

\* C6: the returned array has the length of urls and element k is the
\* value the validateMp3Url call for urls[k] resolved with (true exactly
\* when its last response was 200), in every completion order.
C6_ResultsAlignedWithInput ==
    bpc = "done" =>
        /\ Len(results) = Len(urls)
        /\ DOMAIN calls = 1..Len(urls)
        /\ \A k \in 1..Len(urls) :
              /\ calls[k].url = urls[k]
              /\ calls[k].pc = "done"
              /\ results[k] = calls[k].result
              /\ results[k] = TRUE <=> calls[k].last = Status(200)

C6_Witness ==
    /\ bpc = "done"
    /\ Len(urls) = 3
    /\ results = <<TRUE, FALSE, TRUE>>
    /\ calls[1].probes = 3
    /\ calls[2].probes = 1

\* C7: at most BATCH_SIZE validateMp3Url calls are started and unresolved.
C7_InFlightWithinWindow ==
    NumInFlight <= BATCH_SIZE

C7_Witness ==
    /\ Len(urls) > BATCH_SIZE
    /\ NumInFlight = BATCH_SIZE

\* C8: when a call of a window has been started, every call of every
\* earlier window has resolved, retries and backoff waits included.
C8_WindowsAreSequential ==
    \A k \in DOMAIN calls :
        \A j \in 1..Len(urls) :
            WindowNo(j) < WindowNo(k) =>
                /\ j \in DOMAIN calls
                /\ calls[j].pc = "done"

C8_Witness ==
    /\ \E k \in DOMAIN calls :
          /\ WindowNo(k) = 1
          /\ calls[k].pc = "probing"
    /\ Len(calls[1].delays) = 2
    /\ calls[2].probes = 1

\* C9: an exception in the probes of one URL neither rejects the batch nor
\* touches its siblings: no call rejects, a call whose final attempt threw
\* (network error or timeout) yields false, and every other element is
\* the value of its own call.
C9_ProbeFailureIsIsolated ==
    /\ bpc # "rejected"
    /\ \A k \in DOMAIN calls : calls[k].pc # "rejected"
    /\ bpc = "done" =>
          \A k \in 1..Len(urls) :
              /\ calls[k].last.kind \in {"error", "timeout"}
                    => results[k] = FALSE
              /\ \A j \in WindowOf(WindowNo(k) * BATCH_SIZE, urls) \ {k} :
                    results[j] = calls[j].result

C9_Witness ==
    /\ bpc = "done"
    /\ Len(urls) >= 2
    /\ calls[1].last = NetworkError
    /\ calls[1].probes = 3
    /\ results[1] = FALSE
    /\ results[2] = TRUE

----------------------------------------------------------------------------
(* Properties of extractEpisodes, under SpecIngest                         *)

\* positions in the feed of the candidates whose id is not in existingIds
NewPositions ==
    {k \in DOMAIN parsedEpisodes :
        parsedEpisodes[k].id \notin existingEpisodeIds}

\* the feed position of the n-th of them
NthNewPosition(n) ==
    CHOOSE k \in NewPositions :
        Cardinality({j \in NewPositions : j <= k}) = n

\* C10: validateMp3Url is called, and so a probe is issued, only for the
\* audio URL of a candidate whose id is not in existingIds, once per such
\* candidate; when every candidate id is in existingIds, the batch
\* scheduler is not invoked at all.
C10_OnlyNewCandidatesAreProbed ==
    /\ batchInvocations <= 1
    /\ batchInvocations = 0 => (calls = <<>> /\ bpc = "idle")
    /\ ipc \in {"validating", "done"} =>
          (batchInvocations = 0 <=> NewPositions = {})
    /\ batchInvocations = 1 => Len(urls) = Cardinality(NewPositions)
    /\ \A k \in DOMAIN calls :
          /\ k \in 1..Cardinality(NewPositions)
          /\ parsedEpisodes[NthNewPosition(k)].id \notin existingEpisodeIds
          /\ calls[k].url = parsedEpisodes[NthNewPosition(k)].audio_url

C10_Witness ==
    /\ ipc = "done"
    /\ Len(parsedEpisodes) = 2
    /\ parsedEpisodes[1].id \in existingEpisodeIds
    /\ parsedEpisodes[2].id \notin existingEpisodeIds
    /\ parsedEpisodes[1].audio_url = parsedEpisodes[2].audio_url
    /\ DOMAIN calls = {1}
    /\ calls[1].probes = 2
    /\ calls[1].result = TRUE
    /\ Len(episodesOut) = 2

\* positions in the feed of the candidates whose id is in existingIds
KnownPositions ==
    {k \in DOMAIN parsedEpisodes :
        parsedEpisodes[k].id \in existingEpisodeIds}

\* positions in the feed of the new candidates whose validateMp3Url call
\* resolved with true
ValidatedPositions ==
    {NthNewPosition(n) : n \in {m \in DOMAIN calls : calls[m].result = TRUE}}

\* the candidates at the positions S, in feed order
CandidatesAt(S) ==
    [n \in 1..Cardinality(S) |->
        parsedEpisodes[CHOOSE k \in S : Cardinality({j \in S : j <= k}) = n]]

\* C11: parseFeed resolves with the candidates whose id is in existingIds
\* followed by the new candidates whose validation returned true, and with
\* nothing else: a new candidate whose validation returned false is not in
\* the list.
C11_ResultIsKnownPlusValidated ==
    ipc = "done" =>
        /\ episodesOut =
              CandidatesAt(KnownPositions) \o CandidatesAt(ValidatedPositions)
        /\ \A n \in DOMAIN calls : calls[n].pc = "done"
        /\ Len(episodesOut) =
              Cardinality(KnownPositions)
              + Cardinality({n \in DOMAIN calls : calls[n].result = TRUE})

C11_Witness ==
    /\ ipc = "done"
    /\ Len(parsedEpisodes) = 2
    /\ NewPositions = {1, 2}
    /\ calls[1].last = Status(404)
    /\ calls[2].result = TRUE
    /\ episodesOut = <<parsedEpisodes[2]>>

----------------------------------------------------------------------------
(* SpecScrape: scrape() calls one after the other on one data directory    *)

MaxRuns == 2

PROVIDER_NAME == "darknetdiaries"

getExistingEpisodeIdsFirst(file, provider) ==
    IF Readable(file) /\ \E k \in DOMAIN file.data.episodes :
                             file.data.episodes[k].provider = provider
    THEN {file.data.episodes[
              CHOOSE k \in DOMAIN file.data.episodes :
                  /\ file.data.episodes[k].provider = provider
                  /\ \A j \in 1..(k - 1) :
                        file.data.episodes[j].provider # provider].id}
    ELSE {}

\* getExistingEpisodeIds(providerName): the ids of the provider's stored
\* episodes, none when episodes.json cannot be read and parsed
getExistingEpisodeIds(file, provider) ==
    IF Readable(file)
    THEN {file.data.episodes[k].id :
             k \in {j \in DOMAIN file.data.episodes :
                       file.data.episodes[j].provider = provider}}
    ELSE {}

\* the items a feed of the provider may list: two of the same UTC day and
\* episode number, the second without an enclosure URL, and one of the
\* next day without an episode number
ScrapeItems ==
    {Item(PubDate(8, 0), EpisodeTag(165), TrackedEp1Url),
     Item(PubDate(8, 0), EpisodeTag(165), EmptyUrl),
     Item(PubDate(22, -5), NoEpisodeTag, TrackedEp1Url)}

ScrapeObjectChannelItems ==
    {[isArray |-> FALSE, value |-> it] : it \in ScrapeItems \cup {Undefined}}
ScrapeArrayChannelItems ==
    {[isArray |-> TRUE, value |-> <<first, second>>] :
        first \in ScrapeItems, second \in ScrapeItems}

\* what a finished scrape() leaves for the next one to be compared with
ThisRun ==
    IF rpc = "idle" THEN NoRun
    ELSE [completed |-> rpc = "done",
          feedItems |-> feedItems,
          episodes |-> episodesOut,
          dropped |-> IF ipc = "done"
                      THEN {NthNewPosition(n) :
                               n \in {m \in DOMAIN results : ~results[m]}}
                      ELSE {}]

InitScrape ==
    /\ calls = <<>>
    /\ probeLog = <<>>
    /\ BatchIdle
    /\ IngestIdle
    /\ StoreEmpty
    /\ RunIdle

\* scrape() up to the await of readFile in getExistingEpisodeIds
ScrapeCall ==
    /\ rpc \in {"idle", "done", "failed"}
    /\ clock < MaxRuns
    /\ clock' = clock + 1
    /\ before' = Files
    /\ prevRun' = ThisRun
    /\ rpc' = "reading ids"
    /\ save' = SaveIdle
    /\ calls' = <<>>
    /\ urls' = <<>> /\ results' = <<>> /\ i' = 0 /\ bpc' = "idle"
    /\ providerName' = "" /\ existingEpisodeIds' = {} /\ ipc' = "none"
    /\ parsedEpisodes' = <<>> /\ episodesOut' = <<>>
    /\ batchInvocations' = 0 /\ error' = NoError /\ feedFetches' = 0
    /\ feedItems' = <<>> /\ channelInfo' = NoChannel
    /\ UNCHANGED <<probeLog, callerVars, storeVars>>

\* getExistingEpisodeIds returns and the parser is constructed
IdsRead ==
    /\ rpc = "reading ids"
    /\ providerName' = PROVIDER_NAME
    /\ existingEpisodeIds' = getExistingEpisodeIds(episodesFile, PROVIDER_NAME)
    /\ ipc' = "constructed"
    /\ rpc' = "parsing"
    /\ UNCHANGED <<calls, probeLog, callerVars, batchVars, parsedEpisodes, episodesOut,
                   batchInvocations, error, feedFetches, feedItems,
                   channelInfo, storeVars, save, clock, before, prevRun>>

\* axios.get resolved with a feed
ScrapeFetchReturns ==
    /\ ipc = "fetching"
    /\ \E title \in FeedTitles :
          \/ \E channelItem \in ScrapeObjectChannelItems :
                ParseFetched(title, channelItem)
          \/ \E channelItem \in ScrapeArrayChannelItems :
                ParseFetched(title, channelItem)
    /\ UNCHANGED <<probeLog, callerVars, providerName, existingEpisodeIds, feedFetches,
                   storeVars, runVars>>

\* parseFeed resolved: scrape() up to the first await of saveData; the
\* settled validateMp3Url calls are referenced no more
ParseFeedReturns ==
    /\ rpc = "parsing"
    /\ ipc = "done"
    /\ SaveData(PROVIDER_NAME,
                [episodes |-> episodesOut,
                 channelInfo |-> ChannelInfo(channelInfo)])
    /\ rpc' = "saving"
    /\ calls' = <<>>
    /\ UNCHANGED <<probeLog, callerVars, batchVars, ingestVars, storeVars, clock,
                   before, prevRun>>

\* parseFeed rejected: the catch block logs and rethrows
ParseFeedRejects ==
    /\ rpc = "parsing"
    /\ ipc = "failed"
    /\ rpc' = "failed"
    /\ UNCHANGED <<calls, probeLog, callerVars, batchVars, ingestVars, storeVars, save,
                   clock, before, prevRun>>

\* saveData resolved: scrape() to its end
SaveDataReturns ==
    /\ rpc = "saving"
    /\ save.pc = "done"
    /\ rpc' = "done"
    /\ UNCHANGED <<calls, probeLog, callerVars, batchVars, ingestVars, storeVars, save,
                   clock, before, prevRun>>

\* saveData rejected: the catch block logs and rethrows
SaveDataRejects ==
    /\ rpc = "saving"
    /\ save.pc = "failed"
    /\ rpc' = "failed"
    /\ UNCHANGED <<calls, probeLog, callerVars, batchVars, ingestVars, storeVars, save,
                   clock, before, prevRun>>

NextScrape ==
    \/ ScrapeCall
    \/ IdsRead
    \/ ParseFeedCall
    \/ FetchFails
    \/ ScrapeFetchReturns
    \/ ProbeReturns
    \/ BackoffElapsed
    \/ BatchResume
    \/ ExtractEpisodesResume
    \/ ParseFeedReturns
    \/ ParseFeedRejects
    \/ SaveSteps
    \/ SaveDataReturns
    \/ SaveDataRejects

SpecScrape == InitScrape /\ [][NextScrape]_vars

----------------------------------------------------------------------------
(* Properties of saveData, under SpecStore                                 *)

StoredEpisodes == episodesFile.data.episodes
StoredChannels == channelsFile.data.channels
EpisodesOf(eps, provider) == SelectSeq(eps, LAMBDA ep : ep.provider = provider)
ChannelsOf(chs, id) == SelectSeq(chs, LAMBDA ch : ch.id = id)
IdsOf(eps) == {eps[k].id : k \in DOMAIN eps}
LastWithId(eps, id) ==
    eps[CHOOSE k \in DOMAIN eps :
            /\ eps[k].id = id
            /\ \A j \in DOMAIN eps : eps[j].id = id => j <= k]

\* C15: a saveData call that fails at any step leaves episodes.json and
\* channels.json as they were when the call started.
C15_FailedSaveLeavesStoreUntouched ==
    save.pc = "failed" =>
        /\ episodesFile = before.episodes
        /\ channelsFile = before.channels

\* the failing case of C15: episodes.json holds the merged episodes of a
\* call whose write of channels.json was rejected
C15_Witness ==
    /\ save.pc = "failed"
    /\ error = WriteError
    /\ episodesFile = File(save.finalEpisodes)
    /\ episodesFile # before.episodes
    /\ channelsFile = before.channels
    /\ save.finalChannels # ChannelsData(<<>>)

\* C16: after a saveData call, every stored episode whose id is among the
\* incoming ones is the last incoming episode of that id, and an incoming
\* list whose ids were all stored before adds no episode.
C16_LastWriteWinsById ==
    save.pc = "done" =>
        /\ \A k \in DOMAIN StoredEpisodes :
              StoredEpisodes[k].id \in IdsOf(save.episodes) =>
                  StoredEpisodes[k] =
                      LastWithId(save.episodes, StoredEpisodes[k].id)
        /\ (/\ Readable(before.episodes)
            /\ IdsOf(save.episodes) \subseteq IdsOf(before.episodes.data.episodes))
               => Len(StoredEpisodes) <= Len(before.episodes.data.episodes)

\* the failing case of C16: no readable episodes.json, two incoming
\* episodes of one id, and the first of them is stored
C16_Witness ==
    /\ save.pc = "done"
    /\ ~Readable(before.episodes)
    /\ Len(save.episodes) = 2
    /\ save.episodes[1].id = save.episodes[2].id
    /\ save.episodes[1] # save.episodes[2]
    /\ \E k \in DOMAIN StoredEpisodes : StoredEpisodes[k] = save.episodes[1]

\* C17: after a successful saveData call no two stored episodes share an
\* id.
C17_NoDuplicateIds ==
    save.pc = "done" =>
        \A j, k \in DOMAIN StoredEpisodes :
            StoredEpisodes[j].id = StoredEpisodes[k].id => j = k

\* the failing case of C17: episodes.json was absent or unreadable and the
\* store now holds two episodes of one id
C17_Witness ==
    /\ save.pc = "done"
    /\ ~Readable(before.episodes)
    /\ Len(StoredEpisodes) = 2
    /\ StoredEpisodes[1].id = StoredEpisodes[2].id

\* C18: the episodes of a written episodes.json are in descending order of
\* date, whichever branch of saveToEpisodes wrote them.
C18_StoredSortedByDateDesc ==
    Readable(episodesFile) =>
        \A j, k \in DOMAIN StoredEpisodes :
            j < k => StoredEpisodes[j].date >= StoredEpisodes[k].date

\* a merge into a readable store put a newer incoming episode ahead of an
\* older stored one
C18_Witness ==
    /\ save.pc = "done"
    /\ Readable(before.episodes)
    /\ Len(before.episodes.data.episodes) = 1
    /\ Len(save.episodes) = 1
    /\ StoredEpisodes = save.episodes \o before.episodes.data.episodes
    /\ StoredEpisodes[1].date > StoredEpisodes[2].date

\* C19: after a saveData call that carries channelInfo, the stored channel
\* of that provider has total_episodes equal to the number of stored
\* episodes of the provider.
C19_ChannelCountsStoredEpisodes ==
    (save.pc = "done" /\ save.channelInfo.present) =>
        \E k \in DOMAIN StoredChannels :
            /\ StoredChannels[k].id = save.channelInfo.value.id
            /\ StoredChannels[k].total_episodes =
                   Len(EpisodesOf(StoredEpisodes, save.channelInfo.value.id))

\* the failing case of C19: the store keeps an episode of the provider
\* that the incoming list lacks, and the channel counts the incoming list
C19_Witness ==
    /\ save.pc = "done"
    /\ save.channelInfo.present
    /\ Len(save.episodes) = 1
    /\ Len(EpisodesOf(StoredEpisodes, save.providerName)) = 2
    /\ StoredEpisodes[1].id # StoredEpisodes[2].id
    /\ \E k \in DOMAIN StoredChannels :
          /\ StoredChannels[k].id = save.providerName
          /\ StoredChannels[k].total_episodes = 1

\* C20: a saveData call of one provider that found both files readable
\* leaves the stored channel and the stored episodes of every other
\* provider as they were.
C20_OtherProvidersUntouched ==
    (/\ save.pc = "done"
     /\ Readable(before.episodes)
     /\ Readable(before.channels)) =>
        \A other \in StoreProviders \ {save.providerName} :
            /\ EpisodesOf(StoredEpisodes, other) =
                   EpisodesOf(before.episodes.data.episodes, other)
            /\ ChannelsOf(StoredChannels, other) =
                   ChannelsOf(before.channels.data.channels, other)

\* the failing case of C20: the store held two episodes of darknetdiaries
\* under one id, written by saveToEpisodes when episodes.json was absent,
\* and a saveData call of hardfork keeps one of them
C20_Witness ==
    /\ save.pc = "done"
    /\ save.providerName = "hardfork"
    /\ save.channelInfo.present
    /\ Len(save.episodes) = 1
    /\ Readable(before.episodes)
    /\ Readable(before.channels)
    /\ Len(EpisodesOf(before.episodes.data.episodes, "darknetdiaries")) = 2
    /\ before.episodes.data.episodes[1] # before.episodes.data.episodes[2]
    /\ Len(EpisodesOf(StoredEpisodes, "darknetdiaries")) = 1
    /\ ChannelsOf(StoredChannels, "darknetdiaries") =
           ChannelsOf(before.channels.data.channels, "darknetdiaries")

----------------------------------------------------------------------------
(* Properties of scrape(), under SpecScrape                                *)

Members(seq) == {seq[k] : k \in DOMAIN seq}

\* parseFeed of this scrape() has resolved and saveData is not yet called
Parsed == rpc = "parsing" /\ ipc = "done"

\* this scrape() fetched the feed the previous scrape() fetched; the
\* previous one completed, and the ids read from its store are not empty
Rerun ==
    /\ Parsed
    /\ prevRun.completed
    /\ prevRun.feedItems = feedItems
    /\ existingEpisodeIds # {}

\* no two items of the feed have the same id
DistinctIds ==
    \A j, k \in DOMAIN parsedEpisodes :
        parsedEpisodes[j].id = parsedEpisodes[k].id => j = k

\* C12 as the spec states it, for feeds whose items have distinct ids: a
\* rerun on an unchanged feed issues no audio probe and returns the
\* episodes the previous run returned.
C12_RerunProbesNothing ==
    (Rerun /\ DistinctIds) =>
        /\ \A n \in DOMAIN calls : calls[n].probes = 0
        /\ Members(episodesOut) = Members(prevRun.episodes)

\* C12: a rerun on an unchanged feed validates no candidate whose id the
\* previous run returned, and returns every episode the previous run
\* returned; when the previous run dropped no candidate it makes no
\* validation call at all and returns just the episodes of the previous run.
C12_RerunSkipsStoredCandidates ==
    Rerun =>
        /\ \A n \in DOMAIN calls :
              parsedEpisodes[NthNewPosition(n)].id \notin IdsOf(prevRun.episodes)
        /\ Members(prevRun.episodes) \subseteq Members(episodesOut)
        /\ prevRun.dropped = {} =>
              /\ calls = <<>>
              /\ batchInvocations = 0
              /\ Members(episodesOut) = Members(prevRun.episodes)

\* a rerun over a feed of two episodes, both stored by the previous run
C12_Witness ==
    /\ Rerun
    /\ prevRun.dropped = {}
    /\ Len(prevRun.episodes) = 2
    /\ prevRun.episodes[1].id # prevRun.episodes[2].id
    /\ calls = <<>>
    /\ Len(episodesOut) = 2

\* C13: a candidate the previous run dropped, still listed at the same
\* place of an unchanged feed, is new again (handed to validation again)
\* and is not returned as a known candidate.
C13_DroppedIsValidatedAgain ==
    (Parsed /\ prevRun.feedItems = feedItems) =>
        \A p \in prevRun.dropped :
            /\ p \in NewPositions
            /\ p \notin KnownPositions

\* the failing case of C13: the second item of the feed has the id of the
\* first; the previous run dropped it and stored the first, and this run
\* returns it without any validation call
C13_Witness ==
    /\ Parsed
    /\ prevRun.completed
    /\ prevRun.feedItems = feedItems
    /\ prevRun.dropped = {2}
    /\ Len(prevRun.episodes) = 1
    /\ KnownPositions = {1, 2}
    /\ calls = <<>>
    /\ Len(episodesOut) = 2
    /\ episodesOut[2].audio_url = EmptyUrl

\* C14: a scrape() whose feed fetch failed rejects with the fetch error
\* after one axios.get, without calling saveData, and the three files are
\* as they were when it started.
C14_FetchFailureLeavesStore ==
    (ipc = "failed" /\ error = FetchError) =>
        /\ feedFetches = 1
        /\ Files = before
        /\ save = SaveIdle
        /\ calls = <<>>
        /\ rpc \in {"parsing", "failed"}

\* the fetch of a second scrape() failed and it rejected; the store the
\* first one wrote is in place
C14_Witness ==
    /\ rpc = "failed"
    /\ error = FetchError
    /\ feedFetches = 1
    /\ clock = 2
    /\ Readable(episodesFile)
    /\ Len(StoredEpisodes) = 2
    /\ Readable(channelsFile)
    /\ Readable(versionFile)
    /\ Files = before

----------------------------------------------------------------------------
(* More properties of saveData, under SpecStore                            *)

\* C21: after a successful saveData call that carries channelInfo,
\* channels.json holds at most one channel per id, in ascending order of
\* name.
C21_ChannelsUniqueAndSortedByName ==
    (save.pc = "done" /\ save.channelInfo.present) =>
        /\ Readable(channelsFile)
        /\ \A j, k \in DOMAIN StoredChannels :
              StoredChannels[j].id = StoredChannels[k].id => j = k
        /\ \A j, k \in DOMAIN StoredChannels :
              j < k => LocaleRank(StoredChannels[j].name)
                          <= LocaleRank(StoredChannels[k].name)
        /\ \E k \in DOMAIN StoredChannels :
              StoredChannels[k].id = save.channelInfo.value.id

\* hardfork was stored first; the call for darknetdiaries put its channel,
\* whose name sorts first, ahead of it
C21_Witness ==
    /\ save.pc = "done"
    /\ save.channelInfo.present
    /\ save.providerName = "darknetdiaries"
    /\ Readable(before.channels)
    /\ Len(before.channels.data.channels) = 1
    /\ before.channels.data.channels[1].id = "hardfork"
    /\ Len(StoredChannels) = 2
    /\ StoredChannels[1].id = "darknetdiaries"
    /\ StoredChannels[2] = before.channels.data.channels[1]

\* how many times e occurs in seq
Occurrences(seq, e) == Cardinality({k \in DOMAIN seq : seq[k] = e})

\* the same elements, each as many times
SameBag(s, t) ==
    /\ Len(s) = Len(t)
    /\ \A e \in Members(s) \cup Members(t) :
          Occurrences(s, e) = Occurrences(t, e)

\* C24: a saveData call that found episodes.json missing or unparseable
\* goes on to write (it can fail only in mkdir or writeFile), and the
\* episodes it writes are exactly the incoming ones, each as many times as
\* it came in.
C24_UnreadableStoreHoldsIncoming ==
    ~Readable(before.episodes) =>
        /\ save.pc = "failed" => error \in {MkdirError, WriteError}
        /\ save.pc = "writing episodes" =>
              /\ SameBag(save.finalEpisodes.episodes, save.episodes)
              /\ save.finalEpisodes.total_episodes = Len(save.episodes)
        /\ save.pc = "done" =>
              /\ Readable(episodesFile)
              /\ SameBag(StoredEpisodes, save.episodes)
              /\ episodesFile.data.total_episodes = Len(save.episodes)

\* a failed write left episodes.json unparseable; the next saveData call
\* returned and the file holds its two incoming episodes
C24_Witness ==
    /\ save.pc = "done"
    /\ before.episodes = CorruptEpisodes
    /\ Len(save.episodes) = 2
    /\ save.episodes[1] # save.episodes[2]
    /\ Readable(episodesFile)
    /\ Len(StoredEpisodes) = 2

\* C30: a saveData call that found episodes.json readable and returned
\* keeps every stored id, and the file holds no fewer episodes than before.
C30_StoredEpisodesPreserved ==
    (save.pc = "done" /\ Readable(before.episodes)) =>
        /\ Readable(episodesFile)
        /\ IdsOf(before.episodes.data.episodes) \subseteq IdsOf(StoredEpisodes)
        /\ Len(StoredEpisodes) >= Len(before.episodes.data.episodes)
        /\ episodesFile.data.total_episodes
              >= before.episodes.data.total_episodes

\* the failing case of C30: the store held two episodes of darknetdiaries
\* under one id; a saveData call for hardfork that carried no episode
\* returned and the store holds one of the two: every id is kept, and the
\* count went from two to one
C30_Witness ==
    /\ save.pc = "done"
    /\ save.providerName = "hardfork"
    /\ Readable(before.episodes)
    /\ Len(before.episodes.data.episodes) = 2
    /\ Len(save.episodes) = 0
    /\ IdsOf(before.episodes.data.episodes) = IdsOf(StoredEpisodes)
    /\ Len(StoredEpisodes) = 1

----------------------------------------------------------------------------
(* Properties of loadData and getExistingEpisodeIds, under SpecRead        *)

\* how many stored episodes of the provider have the id
StoredWithId(provider, id) ==
    Cardinality({k \in DOMAIN StoredEpisodes :
                    /\ StoredEpisodes[k].provider = provider
                    /\ StoredEpisodes[k].id = id})

\* C23: a returned getExistingEpisodeIds or loadData call left the three
\* files as it found them; with episodes.json missing or unparseable it
\* returned [] / null, and otherwise the ids / the episodes of exactly the
\* stored episodes whose provider is the argument, each as many times as
\* stored, with their count.
C23_ReadsAreProjections ==
    loaded.op # "none" =>
        /\ Files = loaded.store
        /\ ~Readable(episodesFile) =>
              /\ loaded.ids = <<>>
              /\ loaded.episodes = <<>>
              /\ loaded.op = "loadData" => loaded.isNull
        /\ Readable(episodesFile) =>
              /\ ~loaded.isNull
              /\ loaded.op = "getExistingEpisodeIds" =>
                    /\ \A k \in DOMAIN loaded.ids :
                          StoredWithId(loaded.provider, loaded.ids[k]) > 0
                    /\ \A id \in IdsOf(StoredEpisodes) :
                          Occurrences(loaded.ids, id)
                              = StoredWithId(loaded.provider, id)
              /\ loaded.op = "loadData" =>
                    /\ \A k \in DOMAIN loaded.episodes :
                          /\ loaded.episodes[k].provider = loaded.provider
                          /\ loaded.episodes[k] \in Members(StoredEpisodes)
                    /\ \A ep \in Members(StoredEpisodes) :
                          Occurrences(loaded.episodes, ep)
                              = IF ep.provider = loaded.provider
                                THEN Occurrences(StoredEpisodes, ep)
                                ELSE 0
                    /\ loaded.total_episodes = Len(loaded.episodes)

\* loadData returned the one stored episode of hardfork, from a store that
\* also holds an episode of darknetdiaries
C23_Witness ==
    /\ loaded.op = "loadData"
    /\ loaded.provider = "hardfork"
    /\ Readable(episodesFile)
    /\ Len(StoredEpisodes) = 2
    /\ Len(loaded.episodes) = 1
    /\ \E k \in DOMAIN StoredEpisodes :
          StoredEpisodes[k].provider = "darknetdiaries"

----------------------------------------------------------------------------
(* More properties of scrape(), under SpecScrape                           *)

\* this scrape() has returned; it fetched the feed the previous scrape()
\* fetched, and the previous one completed without dropping a candidate,
\* so that every candidate of this one is stored and none is to be probed
RerunOfCleanRun ==
    /\ prevRun.completed
    /\ prevRun.feedItems = feedItems
    /\ prevRun.dropped = {}

\* C22 for a first run that dropped no candidate: the second scrape() of
\* an unchanged feed makes no validation call and leaves episodes.json and
\* channels.json, content and order, as the first one wrote them.
C22_RerunLeavesStore ==
    RerunOfCleanRun =>
        /\ Parsed => (calls = <<>> /\ batchInvocations = 0)
        /\ rpc = "done" =>
              /\ episodesFile = before.episodes
              /\ channelsFile = before.channels

\* the failing case of C22: the feed lists two items of one id; the first
\* scrape() stored both, the second one, with no probe, stored one
C22_Witness ==
    /\ rpc = "done"
    /\ RerunOfCleanRun
    /\ batchInvocations = 0
    /\ Len(feedItems) = 2
    /\ Readable(before.episodes)
    /\ Len(before.episodes.data.episodes) = 2
    /\ Len(StoredEpisodes) = 1
    /\ channelsFile = before.channels

----------------------------------------------------------------------------
(* Properties of the derived candidates, under SpecDerive                  *)

\* the UTC calendar day of a pubDate as YYYYMMDD: the 4th of November 2025
\* and as many days on as the instant has whole days
UtcDay(pubDate) ==
    2025 * 10000 + 11 * 100 + 4 + ((pubDate.local - pubDate.offset) \div 24)

\* the id C25 states for an item and a provider
StatedIdText(item, provider) ==
    Decimal(UtcDay(item.pubDate)) \o <<"-">> \o ProviderText(provider)
    \o <<"-", "ep">>
    \o (IF item.episode.present THEN Decimal(item.episode.n)
        ELSE <<"unknown">>)

\* C25: the id of every derived candidate is <UTC day>-<provider>-ep<n>
\* with n the decimal episode number of the item, 0 included, and unknown
\* only for an item without one; items that agree in day, provider and
\* episode number get one id.
C25_IdFormat ==
    /\ \A k \in DOMAIN parsedEpisodes :
          IdText(parsedEpisodes[k].id)
              = StatedIdText(feedItems[k], parsedEpisodes[k].provider)
    /\ \A j, k \in DOMAIN parsedEpisodes :
          (/\ UtcDay(feedItems[j].pubDate) = UtcDay(feedItems[k].pubDate)
           /\ parsedEpisodes[j].provider = parsedEpisodes[k].provider
           /\ feedItems[j].episode = feedItems[k].episode)
          => parsedEpisodes[j].id = parsedEpisodes[k].id

\* the failing case of C25: an item with itunes:episode 0 got the id
\* 20251104-darknetdiaries-epunknown, with episode_number 0
C25_Witness ==
    \E k \in DOMAIN parsedEpisodes :
        /\ feedItems[k].episode = EpisodeTag(0)
        /\ parsedEpisodes[k].episode_number = Number(0)
        /\ IdText(parsedEpisodes[k].id)
               = Decimal(20251104)
                 \o <<"-", "darknetdiaries", "-", "ep", "unknown">>

\* entries of the Map of saveToEpisodes, keyed by the id string
KeyedByText(eps) ==
    [k \in DOMAIN eps |-> [id |-> IdText(eps[k].id), episode |-> eps[k]]]

\* the episodes derived by parsers of other providers than this one
EpisodesOfOthers(eps, provider) ==
    SelectSeq(eps, LAMBDA ep : ep.provider # provider)

\* C26: candidates of different providers have different id strings,
\* whatever their days and episode numbers; so setting the candidates of
\* one provider into a Map of the candidates of the others, keyed by id
\* string, leaves every entry of the others in place.
C26_NoCollisionAcrossProviders ==
    /\ \A j, k \in DOMAIN parsedEpisodes :
          parsedEpisodes[j].provider # parsedEpisodes[k].provider
          => IdText(parsedEpisodes[j].id) # IdText(parsedEpisodes[k].id)
    /\ \A p \in DeriveProviders :
          LET existingMap ==
                  MapSetAll(<<>>,
                            KeyedByText(EpisodesOfOthers(parsedEpisodes, p)))
              merged ==
                  MapSetAll(existingMap,
                            KeyedByText(EpisodesOf(parsedEpisodes, p)))
          IN  /\ Members(existingMap) \subseteq Members(merged)
              /\ Len(merged) = Len(existingMap)
                     + Cardinality(IdsOf(EpisodesOf(parsedEpisodes, p)))

\* candidates of the same day and episode number of two providers, one
\* named like the id of the other: darknetdiaries and darknetdiaries-ep1
C26_Witness ==
    /\ Len(parsedEpisodes) = 2
    /\ parsedEpisodes[1].provider = "darknetdiaries"
    /\ parsedEpisodes[2].provider = "darknetdiaries-ep1"
    /\ parsedEpisodes[1].id.date = parsedEpisodes[2].id.date
    /\ parsedEpisodes[1].id.ep = parsedEpisodes[2].id.ep
    /\ parsedEpisodes[1].id.ep = [unknown |-> FALSE, n |-> 1]
    /\ IdText(parsedEpisodes[1].id) # IdText(parsedEpisodes[2].id)

\* C27: every item handed to the callback yields a candidate, with '' for a
\* missing enclosure and null for a missing episode number, and the run is
\* not left by an exception.
C27_EveryItemYieldsEpisode ==
    /\ ipc # "failed"
    /\ error = NoError
    /\ Len(parsedEpisodes) = Len(feedItems)
    /\ \A k \in DOMAIN parsedEpisodes :
          /\ feedItems[k].enclosure = EmptyUrl
             => parsedEpisodes[k].audio_url = EmptyUrl
          /\ ~feedItems[k].episode.present
             => parsedEpisodes[k].episode_number = Null

\* the failing case of C27: the second item of a feed has no parseable
\* pubDate; the callback threw, the candidate of the first item is lost
\* with the run
C27_Witness ==
    /\ ipc = "failed"
    /\ error = ItemError
    /\ Len(feedItems) = 2
    /\ feedItems[1].pubDate.valid
    /\ ~feedItems[2].pubDate.valid
    /\ Len(parsedEpisodes) = 1
    /\ episodesOut = <<>>

\* the six patterns of trackingPatterns that are one fixed text
LiteralPatterns ==
    {<<"www.podtrac.com", "pts", "redirect.mp3">>,
     <<"dts.podtrac.com", "redirect.mp3">>,
     <<"tracking.feedpress.it">>,
     <<"prfx.byspotify.com", "e", "op3.dev", "e">>,
     <<"pdst.fm", "e">>,
     <<"pscrb.fm", "rss", "p">>}

\* the numbers of parts after the scheme that a pattern of the list
\* matches at the front of u, each followed by a "/"
LeadingPatternLengths(u) ==
    IF ~HasScheme(u) THEN {}
    ELSE {Len(p) : p \in {q \in LiteralPatterns :
                             /\ Len(u) >= Len(q) + 2
                             /\ \A k \in DOMAIN q :
                                   toLowerCase(u[k + 1]) = q[k]}}
         \cup {n \in 2..(Len(u) - 2) :
                  /\ toLowerCase(u[n + 1]) = "redirect.mp3"
                  /\ \A m \in 2..(n - 1) :
                        toLowerCase(u[m + 1]) # "redirect.mp3"}
         \cup {n \in {2} : /\ Len(u) >= 4
                           /\ toLowerCase(u[2]) = "pfx.vpixl.com"
                           /\ u[3] # ""}

\* u without its scheme and the n parts after it, under https
WithoutLeading(u, n) ==
    <<"https:">> \o [k \in 1..(Len(u) - n - 1) |-> u[k + n + 1]]

\* the URLs got from those of S by removing one leading pattern
OnceStripped(S) ==
    UNION {{WithoutLeading(u, n) : n \in LeadingPatternLengths(u)} : u \in S}

\* the URLs got from u by removing leading patterns one to four times
Stripped(u) ==
    LET s1 == OnceStripped({u})
        s2 == OnceStripped(s1)
        s3 == OnceStripped(s2)
        s4 == OnceStripped(s3)
    IN  s1 \cup s2 \cup s3 \cup s4

\* C28: the audio_url of a candidate is the enclosure URL itself when no
\* pattern of the list matches at its front; otherwise it is the enclosure
\* URL with leading patterns removed and nothing else changed, under
\* https; the podtrac URL of the scenario gives
\* https://traffic.example.com/ep1.mp3.
C28_LeadingPatternRemoved ==
    \A k \in DOMAIN parsedEpisodes :
        LET url == feedItems[k].enclosure
            audioUrl == parsedEpisodes[k].audio_url
        IN  /\ LeadingPatternLengths(url) = {} => audioUrl = url
            /\ LeadingPatternLengths(url) # {} =>
                  /\ audioUrl \in Stripped(url)
                  /\ Len(audioUrl) < Len(url)
                  /\ audioUrl[1] = "https:"
                  /\ \A m \in 1..(Len(audioUrl) - 1) :
                        audioUrl[Len(audioUrl) + 1 - m]
                            = url[Len(url) + 1 - m]
            /\ url = TrackedEp1Url => audioUrl = Ep1Url

\* the candidate of the scenario's podtrac URL, and one of an http URL
\* with the same prefix
C28_Witness ==
    /\ Len(parsedEpisodes) = 2
    /\ feedItems[1].enclosure = TrackedEp1Url
    /\ parsedEpisodes[1].audio_url = Ep1Url
    /\ feedItems[2].enclosure = <<"http:">> \o Tail(TrackedEp1Url)
    /\ parsedEpisodes[2].audio_url = Ep1Url

----------------------------------------------------------------------------
(* Properties of main and runAllScrapers, under SpecMain                   *)

\* main or runAllScrapers has ended after a scraper rejected
EndedOnFailure == main.pc \in {"exited", "returned failure"}

\* C29: when a scraper's fetch or parse failed and the caller has ended,
\* every scraper after the failed one was run and has ingested, and the
\* stored episodes and channels of the other providers are those written
\* by their own runs.
C29_LaterProvidersStillIngested ==
    (EndedOnFailure /\ error \in {FetchError, ItemError}) =>
        /\ \A k \in DOMAIN MainScrapers :
              MainScrapers[k] # main.failed => MainScrapers[k] \in main.ingested
        /\ main.failed \notin main.ingested
        /\ Readable(channelsFile) =>
              \A k \in DOMAIN StoredChannels :
                  StoredChannels[k].id \in main.ingested

\* the failing case of C29: the feed of the first scraper could not be
\* fetched; main exited with no scraper after it run and nothing stored
C29_Witness ==
    /\ main.pc = "exited"
    /\ main.failed = "darknetdiaries"
    /\ error = FetchError
    /\ main.ingested = {}
    /\ Files = before
    /\ StoreEmpty

----------------------------------------------------------------------------
(* Properties of the metadata saveData writes, under SpecStore             *)

\* C34: when saveData has returned, total_episodes of episodes.json is the
\* number of its episodes and total_providers the number of distinct
\* providers among them; when the call carried channelInfo, total_channels
\* of channels.json is the number of its channels.
C34_MetadataCountsAgree ==
    save.pc = "done" =>
        /\ Readable(episodesFile)
        /\ episodesFile.data.total_episodes = Len(StoredEpisodes)
        /\ episodesFile.data.total_providers
               = Cardinality({StoredEpisodes[k].provider :
                                 k \in DOMAIN StoredEpisodes})
        /\ save.channelInfo.present =>
              /\ Readable(channelsFile)
              /\ channelsFile.data.total_channels = Len(StoredChannels)

\* a call for hardfork returned on a store that held episodes of
\* darknetdiaries: two providers, two channels
C34_Witness ==
    /\ save.pc = "done"
    /\ save.providerName = "hardfork"
    /\ save.channelInfo.present
    /\ Len(save.episodes) = 1
    /\ Readable(before.episodes)
    /\ Readable(before.channels)
    /\ episodesFile.data.total_providers = 2
    /\ channelsFile.data.total_channels = 2
    /\ episodesFile.data.total_episodes = 3

----------------------------------------------------------------------------
(* Termination of validateMp3Url, under SpecValidateFair                   *)

\* C36: a validateMp3Url call never issues more probes than retries, with
\* retries <= 0 it has returned false without a probe, and whatever the
\* responses it returns.
C36_TerminatesWithinRetries ==
    /\ [](Called =>
            /\ calls[1].probes <= (IF calls[1].retries > 0
                                   THEN calls[1].retries ELSE 0)
            /\ Len(probeLog) <= calls[1].probes
            /\ calls[1].retries <= 0 =>
                  /\ calls[1].pc = "done"
                  /\ calls[1].result = FALSE
                  /\ calls[1].probes = 0)
    /\ (Called ~> (Called /\ calls[1].pc = "done"))

\* a call with the largest retries that got a failing response to every
\* probe and has returned false
C36_Witness ==
    /\ Called
    /\ calls[1].retries = MaxRetries
    /\ calls[1].probes = MaxRetries
    /\ Len(probeLog) = MaxRetries
    /\ calls[1].pc = "done"
    /\ calls[1].result = FALSE
    /\ Len(calls[1].delays) = MaxRetries - 1

----------------------------------------------------------------------------
(* Properties of item extraction, under SpecIngest                         *)

\* the items the fetched feed lists
ListedItems == {k \in DOMAIN feedItems : feedItems[k].defined}

\* C37, for feeds whose items all have a parseable pubDate: once the feed
\* is fetched, extraction has not failed and there is one candidate for
\* each listed item - none for a feed without items.
C37_OneCandidatePerItem ==
    (/\ ipc \in {"validating", "done", "failed"}
     /\ error \notin {FetchError, BatchError}
     /\ \A k \in ListedItems : feedItems[k].pubDate.valid)
    => /\ ipc # "failed"
       /\ error = NoError
       /\ Len(parsedEpisodes) = Cardinality(ListedItems)

\* the failing case of C37: the fetched feed has no item, and parseFeed
\* rejected with the TypeError of the map callback
C37_Witness ==
    /\ ipc = "failed"
    /\ error = ItemError
    /\ feedFetches = 1
    /\ feedItems = <<Undefined>>
    /\ parsedEpisodes = <<>>
    /\ episodesOut = <<>>

----------------------------------------------------------------------------
(* Idempotence of extractPermanentUrl, under SpecDerive                    *)

\* C38: applying extractPermanentUrl to the audio_url of a candidate, which
\* is extractPermanentUrl of the item's enclosure URL, changes nothing,
\* whatever the order of the tracking prefixes in the enclosure URL.
C38_ExtractPermanentUrlIdempotent ==
    \A k \in DOMAIN parsedEpisodes :
        extractPermanentUrl(parsedEpisodes[k].audio_url)
            = parsedEpisodes[k].audio_url

\* the failing case of C38: the enclosure has the pscrb.fm prefix in front
\* of the pdst.fm prefix; one pass leaves https://pdst.fm/e/..., which a
\* second pass strips
C38_Witness ==
    /\ Len(parsedEpisodes) >= 1
    /\ feedItems[1].enclosure
           = <<"https:", "pscrb.fm", "rss", "p", "pdst.fm", "e">> \o Origin
    /\ parsedEpisodes[1].audio_url = <<"https:", "pdst.fm", "e">> \o Origin
    /\ extractPermanentUrl(parsedEpisodes[1].audio_url)
           = <<"https:">> \o Origin

----------------------------------------------------------------------------
(* Recovery from a saveData call that failed between the two writes,       *)
(* under SpecStore                                                         *)

\* the call before this one wrote episodes.json with episodes of this
\* call's provider and failed before channels.json and version.json were
\* written: the channels write rejected, leaving the file as it was or
\* truncated
EarlierCallFailedBetweenWrites ==
    /\ clock = 2
    /\ Readable(before.episodes)
    /\ ProvidersOf(before.episodes.data.episodes) = {save.providerName}
    /\ ~Readable(before.channels)
    /\ before.version = AbsentVersion

\* C32: when a saveData call failed after the episodes write and before
\* the channels write, then after the next successful call for the same
\* provider (with the channelInfo every parser returns) the provider's
\* channel record exists and its total_episodes is the number of the
\* provider's stored episodes.
C32_NextRunRepairsChannel ==
    (/\ EarlierCallFailedBetweenWrites
     /\ save.pc = "done"
     /\ save.channelInfo.present) =>
        /\ Readable(channelsFile)
        /\ Len(ChannelsOf(StoredChannels, save.providerName)) = 1
        /\ ChannelsOf(StoredChannels, save.providerName)[1].total_episodes
               = Len(EpisodesOf(StoredEpisodes, save.providerName))

\* the failing case of C32: the first call stored ep165 of darknetdiaries
\* and its channels write failed on the truncated file; the next call of
\* darknetdiaries brings only the episode of the next day, and the channel
\* record it writes counts 1 where two episodes are stored
C32_Witness ==
    /\ EarlierCallFailedBetweenWrites
    /\ before.channels = CorruptChannels
    /\ save.pc = "done"
    /\ save.providerName = "darknetdiaries"
    /\ save.channelInfo.present
    /\ Len(save.episodes) = 1
    /\ Len(before.episodes.data.episodes) = 1
    /\ Len(EpisodesOf(StoredEpisodes, "darknetdiaries")) = 2
    /\ StoredEpisodes[1].id # StoredEpisodes[2].id
    /\ Readable(channelsFile)
    /\ StoredChannels
           = <<Channel("darknetdiaries", "Darknet Diaries", 1)>>

----------------------------------------------------------------------------
(* Stored audio URLs and the probes that validated them, under SpecScrape  *)

\* the URLs whose validateMp3Url call of this run returned true, that is,
\* got a 200 from a probe
ProbedOk == {urls[n] : n \in {m \in DOMAIN results : results[m]}}

\* the audio URLs stored when this run started
StoredBefore ==
    {before.episodes.data.episodes[k].audio_url :
        k \in DOMAIN before.episodes.data.episodes}

\* C35: when a scrape() has ended, every stored episode has an audio_url
\* that a probe of this run answered with 200 or that was stored, so
\* validated, by an earlier run - also when the feed lists an item under
\* the id of a stored episode with another enclosure, or two items under
\* one id.
C35_StoredUrlsWereProbedOk ==
    rpc = "done" =>
        \A k \in DOMAIN StoredEpisodes :
            StoredEpisodes[k].audio_url \in ProbedOk \cup StoredBefore

\* the failing case of C35: run 1 stored ep165 with its probed URL; in
\* run 2 the feed lists that id without an enclosure URL, the candidate is
\* returned as known without a validateMp3Url call and replaces the
\* stored episode
C35_Witness ==
    /\ rpc = "done"
    /\ clock = 2
    /\ prevRun.completed
    /\ Len(prevRun.feedItems) = 1
    /\ prevRun.feedItems[1].enclosure = TrackedEp1Url
    /\ StoredBefore = {Ep1Url}
    /\ Len(feedItems) = 1
    /\ feedItems[1].enclosure = EmptyUrl
    /\ urls = <<>>
    /\ batchInvocations = 0
    /\ Len(StoredEpisodes) = 1
    /\ StoredEpisodes[1].id = before.episodes.data.episodes[1].id
    /\ StoredEpisodes[1].audio_url = EmptyUrl

----------------------------------------------------------------------------
(* SpecServer: the HTTP server, its handlers suspended at their awaits     *)
(* while other requests are handled                                        *)

MaxRequests == 2
MaxFetches == 3

\* the routes whose handler awaits getEpisodes()
EpisodeRoutes ==
    {"GET /episodes", "GET /episodes/:id", "GET /channels/:id/episodes",
     "GET /recent", "GET /top", "GET /random", "GET /search"}

\* the routes whose handler awaits getChannels()
ChannelRoutes ==
    {"GET /channels", "GET /channels/:id", "GET /channels/:id/episodes"}

Routes == EpisodeRoutes \cup ChannelRoutes \cup {"GET /home", "POST /scrape"}

\* c.req.query('q') of the requests received: "" when the parameter is
\* missing or empty
Queries == {"", "darknet"}

\* what the handler of a route awaits, in the order it does, for a request
\* with this q: the handler of /search returns 400 before it awaits
\* anything when q is missing or empty
Awaits(route, q) ==
    IF route = "POST /scrape" THEN <<"runAllScrapers">>
    ELSE IF route = "GET /search" /\ q = "" THEN <<>>
    ELSE (IF route \in EpisodeRoutes THEN <<"getEpisodes">> ELSE <<>>)
         \o (IF route \in ChannelRoutes THEN <<"getChannels">> ELSE <<>>)

\* locals of saveToEpisodes and saveToChannels that hold nothing
NoFinalEpisodes == AllEpisodesData(<<>>, {})
NoFinalChannels == ChannelsData(<<>>)

\* a request as the server receives it, with the method of its route and
\* what its handler is going to await: the handler has not run yet
NewRequest(route, q) ==
    [method |-> IF route = "POST /scrape" THEN "POST" ELSE "GET",
     awaits |-> Awaits(route, q),
     pc |-> "received", index |-> 0,
     finalEpisodes |-> NoFinalEpisodes,
     finalChannels |-> NoFinalChannels,
     versionData |-> VersionData(0),
     result |-> ""]

\* the handler of the request runs runAllScrapers(), itself or in
\* getEpisodes
Scrapes(request) ==
    \E k \in DOMAIN request.awaits :
        request.awaits[k] \in {"runAllScrapers", "getEpisodes"}

AwaitsGetChannels(request) ==
    \E k \in DOMAIN request.awaits : request.awaits[k] = "getChannels"

\* what the scraper of a provider hands to saveData in this specification:
\* the one episode of its feed, and its channelInfo
ServedEpisodes(provider) ==
    <<ParseItem(Item(PubDate(8, 0), EpisodeTag(165), TrackedEp1Url),
                provider)>>

\* runAllScrapers() has returned to the handler of request r: getEpisodes
\* goes on to its readFile, the handler of POST /scrape responds
AfterRunAllScrapers(r, result) ==
    [requests[r] EXCEPT
        !.pc = IF requests[r].method = "POST"
               THEN "responded" ELSE "reading episodes.json",
        !.result = result]

InitServer ==
    /\ calls = <<>>
    /\ probeLog = <<>>
    /\ BatchIdle
    /\ IngestIdle
    /\ StoreEmpty
    /\ RunIdle

\* a request arrives
RequestReceived ==
    /\ Len(requests) < MaxRequests
    /\ \E route \in Routes, q \in Queries :
          requests' = Append(requests, NewRequest(route, q))
    /\ clock' = clock + 1
    /\ UNCHANGED <<calls, probeLog, loaded, main, batchVars, ingestVars,
                   storeVars, save, rpc, before, prevRun>>

\* the handler of request r runs up to its first await: of the first
\* scraper's feed, of the readFile of getChannels, or, for /home, to its
\* response
HandlerStarts(r) ==
    /\ requests[r].pc = "received"
    /\ requests' =
           [requests EXCEPT ![r] =
               IF Scrapes(@)
               THEN [@ EXCEPT !.pc = "fetching", !.index = 1]
               ELSE IF AwaitsGetChannels(@)
               THEN [@ EXCEPT !.pc = "reading channels.json"]
               ELSE [@ EXCEPT !.pc = "responded"]]
    /\ UNCHANGED <<calls, probeLog, loaded, main, batchVars, ingestVars,
                   storeVars, runVars>>

\* the scraper awaited by request r got its feed and parsed it: saveData
\* up to the readFile of saveToEpisodes
ServerFeedFetched(r) ==
    /\ requests[r].pc = "fetching"
    /\ feedFetches < MaxFetches
    /\ feedFetches' = feedFetches + 1
    /\ requests' = [requests EXCEPT ![r].pc = "reading episodes"]
    /\ UNCHANGED <<calls, probeLog, loaded, main, batchVars, providerName,
                   existingEpisodeIds, ipc, parsedEpisodes, episodesOut,
                   batchInvocations, error, feedItems, channelInfo,
                   storeVars, runVars>>

\* its axios.get rejected: scrape() rethrows and the catch block of
\* runAllScrapers returns {success: false}
ServerFetchFails(r) ==
    /\ requests[r].pc = "fetching"
    /\ feedFetches < MaxFetches
    /\ feedFetches' = feedFetches + 1
    /\ requests' = [requests EXCEPT ![r] = AfterRunAllScrapers(r, "failure")]
    /\ UNCHANGED <<calls, probeLog, loaded, main, batchVars, providerName,
                   existingEpisodeIds, ipc, parsedEpisodes, episodesOut,
                   batchInvocations, error, feedItems, channelInfo,
                   storeVars, runVars>>

\* saveToEpisodes of request r from the return of readFile to the await
\* of writeFile
ServerEpisodesRead(r) ==
    /\ requests[r].pc = "reading episodes"
    /\ requests' =
           [requests EXCEPT
               ![r].pc = "writing episodes",
               ![r].finalEpisodes =
                   FinalEpisodes(episodesFile,
                                 ServedEpisodes(MainScrapers[requests[r].index]))]
    /\ UNCHANGED <<calls, probeLog, loaded, main, batchVars, ingestVars,
                   storeVars, runVars>>

ServerEpisodesWrittenMergedAgain(r) ==
    /\ requests[r].pc = "writing episodes"
    /\ episodesFile' =
           File(FinalEpisodes(episodesFile,
                              ServedEpisodes(MainScrapers[requests[r].index])))
    /\ requests' = [requests EXCEPT ![r].pc = "reading channels",
                                    ![r].finalEpisodes = NoFinalEpisodes]
    /\ UNCHANGED <<calls, probeLog, loaded, main, batchVars, ingestVars,
                   channelsFile, versionFile, runVars>>

\* episodes.json written with the finalData of request r: saveToChannels
\* up to the await of readFile
ServerEpisodesWritten(r) ==
    /\ requests[r].pc = "writing episodes"
    /\ episodesFile' = File(requests[r].finalEpisodes)
    /\ requests' = [requests EXCEPT ![r].pc = "reading channels",
                                    ![r].finalEpisodes = NoFinalEpisodes]
    /\ UNCHANGED <<calls, probeLog, loaded, main, batchVars, ingestVars,
                   channelsFile, versionFile, runVars>>

\* saveToChannels of request r from the return of readFile to the await
\* of writeFile
ServerChannelsRead(r) ==
    /\ requests[r].pc = "reading channels"
    /\ LET provider == MainScrapers[requests[r].index]
       IN  requests' =
               [requests EXCEPT
                   ![r].pc = "writing channels",
                   ![r].finalChannels =
                       FinalChannels(
                           channelsFile,
                           Channel(provider, ChannelTitle(provider), 0),
                           Len(ServedEpisodes(provider)))]
    /\ UNCHANGED <<calls, probeLog, loaded, main, batchVars, ingestVars,
                   storeVars, runVars>>

\* channels.json written: updateVersion up to the await of writeFile,
\* its versionData built with the time of this moment
ServerChannelsWritten(r) ==
    /\ requests[r].pc = "writing channels"
    /\ channelsFile' = File(requests[r].finalChannels)
    /\ requests' = [requests EXCEPT ![r].pc = "writing version",
                                    ![r].finalChannels = NoFinalChannels,
                                    ![r].versionData = VersionData(clock)]
    /\ UNCHANGED <<calls, probeLog, loaded, main, batchVars, ingestVars,
                   episodesFile, versionFile, runVars>>

\* version.json written with the versionData updateVersion built before
\* it awaited the write: the scraper resolves, and runAllScrapers awaits
\* the next one or returns {success: true}
ServerVersionWritten(r) ==
    /\ requests[r].pc = "writing version"
    /\ versionFile' = File(requests[r].versionData)
    /\ requests' =
           [requests EXCEPT ![r] =
               [(IF @.index = Len(MainScrapers)
                 THEN AfterRunAllScrapers(r, "success")
                 ELSE [@ EXCEPT !.pc = "fetching", !.index = @ + 1])
                EXCEPT !.versionData = VersionData(0)]]
    /\ UNCHANGED <<calls, probeLog, loaded, main, batchVars, ingestVars,
                   episodesFile, channelsFile, runVars>>

\* readFile of getEpisodes returned: the handler awaits getChannels, or
\* responds
ServerGetEpisodesRead(r) ==
    /\ requests[r].pc = "reading episodes.json"
    /\ requests' =
           [requests EXCEPT ![r].pc =
               IF AwaitsGetChannels(requests[r])
               THEN "reading channels.json" ELSE "responded"]
    /\ UNCHANGED <<calls, probeLog, loaded, main, batchVars, ingestVars,
                   storeVars, runVars>>

\* readFile of getChannels returned: the handler responds
ServerGetChannelsRead(r) ==
    /\ requests[r].pc = "reading channels.json"
    /\ requests' = [requests EXCEPT ![r].pc = "responded"]
    /\ UNCHANGED <<calls, probeLog, loaded, main, batchVars, ingestVars,
                   storeVars, runVars>>

NextServer ==
    \/ RequestReceived
    \/ \E r \in DOMAIN requests :
          \/ HandlerStarts(r)
          \/ ServerFeedFetched(r)
          \/ ServerFetchFails(r)
          \/ ServerEpisodesRead(r)
          \/ ServerEpisodesWritten(r)
          \/ ServerChannelsRead(r)
          \/ ServerChannelsWritten(r)
          \/ ServerVersionWritten(r)
          \/ ServerGetEpisodesRead(r)
          \/ ServerGetChannelsRead(r)

SpecServer == InitServer /\ [][NextServer]_vars

----------------------------------------------------------------------------
(* Properties of the server, under SpecServer                              *)

\* C31: as long as every request received was a read request (a GET), no
\* feed has been fetched and the three files are as they were: only
\* POST /scrape triggers ingestion.
C31_ReadRequestsDoNotIngest ==
    (\A r \in DOMAIN requests : requests[r].method = "GET") =>
        /\ feedFetches = 0
        /\ StoreEmpty

\* the failing case of C31: the only request received is a GET of a route
\* that awaits getEpisodes(); before it was answered its runAllScrapers()
\* fetched two feeds and saveData wrote the three files
C31_Witness ==
    /\ Len(requests) = 1
    /\ requests[1].method = "GET"
    /\ requests[1].awaits = <<"getEpisodes">>
    /\ requests[1].pc = "responded"
    /\ requests[1].result = "failure"
    /\ feedFetches = 2
    /\ Readable(episodesFile)
    /\ StoredEpisodes = ServedEpisodes("darknetdiaries")
    /\ Readable(channelsFile)
    /\ Readable(versionFile)

\* C33: the write of saveToEpisodes stores the merge the request computed
\* when it read the file, whatever episodes.json holds by then: nothing is
\* locked, read again or compared between the read and the write. (That
\* runs of two providers overlap through read requests, and that an update
\* is lost, is the state of C33_Witness.)
C33_WriteStoresMergeOfEarlierRead ==
    [][\A r \in DOMAIN requests :
          (/\ requests[r].pc = "writing episodes"
           /\ requests'[r].pc = "reading channels")
          => episodesFile' = File(requests[r].finalEpisodes)]_vars

\* a lost update: two GET requests of a route that awaits getEpisodes();
\* the first has saved darknetdiaries and sansstormcast, the second read
\* episodes.json before and wrote it after the sansstormcast save; the
\* sansstormcast episode is gone from episodes.json while channels.json
\* counts one
C33_Witness ==
    /\ Len(requests) = 2
    /\ \A r \in {1, 2} : /\ requests[r].method = "GET"
                         /\ requests[r].awaits = <<"getEpisodes">>
    /\ requests[1].pc = "fetching"
    /\ requests[1].index = 3
    /\ requests[2].pc = "reading channels"
    /\ requests[2].index = 1
    /\ Readable(episodesFile)
    /\ ProvidersOf(StoredEpisodes) = {"darknetdiaries"}
    /\ Readable(channelsFile)
    /\ Len(ChannelsOf(StoredChannels, "sansstormcast")) = 1
    /\ ChannelsOf(StoredChannels, "sansstormcast")[1].total_episodes = 1

============================================================================
